---------------------------- MODULE Spec2Model ----------------------------
(***************************************************************************)
(* Keyboard teleoperation controller (useArmController) with its planar    *)
(* 2-link inverse and forward kinematics.                                  *)
(*                                                                         *)
(* Numbers.  The source computes in IEEE doubles; the model computes in    *)
(* fixed point:                                                            *)
(*   lengths  in units of 1e-4 m          (l1 = 0.1159 m  is 1159)         *)
(*   angles   in units of pi/3142 rad     (about 1 mrad; pi is 3142)       *)
(*   sines    in units of 1e-5            (SinTab, 1.0 is 100000)          *)
(* Every intermediate value stays below 2^31.  Results agree with the      *)
(* double-precision code to within PosTol length units and JointTol angle  *)
(* units away from the elbow singularities, so "equal" in a statement      *)
(* about kinematics reads "equal within PosTol / JointTol".                *)
(***************************************************************************)
EXTENDS Integers, Sequences, FiniteSets, TLC

(***************************************************************************)
(* Math.sin on the first quarter turn: SinTab[k + 1] = floor(1e5 * sin(k)) *)
(* for k = 0 .. 1571 angle units.                                          *)
(***************************************************************************)
SinTab ==
  <<
    0, 99, 199, 299, 399, 499, 599, 699, 799, 899, 999, 1099, 1199, 1299,
    1399, 1499, 1599, 1699, 1799, 1899, 1999, 2099, 2199, 2299, 2399, 2499, 2599, 2699,
    2799, 2899, 2999, 3099, 3199, 3298, 3398, 3498, 3598, 3698, 3798, 3898, 3998, 4098,
    4198, 4298, 4398, 4497, 4597, 4697, 4797, 4897, 4997, 5097, 5196, 5296, 5396, 5496,
    5596, 5696, 5795, 5895, 5995, 6095, 6195, 6295, 6394, 6494, 6594, 6694, 6793, 6893,
    6993, 7093, 7192, 7292, 7392, 7492, 7591, 7691, 7791, 7890, 7990, 8090, 8189, 8289,
    8389, 8488, 8588, 8687, 8787, 8887, 8986, 9086, 9185, 9285, 9384, 9484, 9584, 9683,
    9783, 9882, 9982, 10081, 10181, 10280, 10379, 10479, 10578, 10678, 10777, 10877, 10976, 11075,
    11175, 11274, 11373, 11473, 11572, 11671, 11771, 11870, 11969, 12068, 12168, 12267, 12366, 12465,
    12565, 12664, 12763, 12862, 12961, 13060, 13160, 13259, 13358, 13457, 13556, 13655, 13754, 13853,
    13952, 14051, 14150, 14249, 14348, 14447, 14546, 14645, 14744, 14843, 14941, 15040, 15139, 15238,
    15337, 15436, 15534, 15633, 15732, 15831, 15929, 16028, 16127, 16225, 16324, 16423, 16521, 16620,
    16718, 16817, 16916, 17014, 17113, 17211, 17310, 17408, 17507, 17605, 17703, 17802, 17900, 17999,
    18097, 18195, 18294, 18392, 18490, 18588, 18687, 18785, 18883, 18981, 19079, 19177, 19276, 19374,
    19472, 19570, 19668, 19766, 19864, 19962, 20060, 20158, 20256, 20354, 20451, 20549, 20647, 20745,
    20843, 20941, 21038, 21136, 21234, 21332, 21429, 21527, 21624, 21722, 21820, 21917, 22015, 22112,
    22210, 22307, 22405, 22502, 22600, 22697, 22794, 22892, 22989, 23086, 23184, 23281, 23378, 23475,
    23572, 23670, 23767, 23864, 23961, 24058, 24155, 24252, 24349, 24446, 24543, 24640, 24737, 24834,
    24930, 25027, 25124, 25221, 25318, 25414, 25511, 25608, 25704, 25801, 25898, 25994, 26091, 26187,
    26284, 26380, 26476, 26573, 26669, 26766, 26862, 26958, 27055, 27151, 27247, 27343, 27439, 27535,
    27632, 27728, 27824, 27920, 28016, 28112, 28208, 28304, 28399, 28495, 28591, 28687, 28783, 28878,
    28974, 29070, 29165, 29261, 29357, 29452, 29548, 29643, 29739, 29834, 29930, 30025, 30120, 30216,
    30311, 30406, 30502, 30597, 30692, 30787, 30882, 30977, 31072, 31167, 31262, 31357, 31452, 31547,
    31642, 31737, 31832, 31926, 32021, 32116, 32211, 32305, 32400, 32494, 32589, 32683, 32778, 32872,
    32967, 33061, 33155, 33250, 33344, 33438, 33533, 33627, 33721, 33815, 33909, 34003, 34097, 34191,
    34285, 34379, 34473, 34567, 34660, 34754, 34848, 34942, 35035, 35129, 35223, 35316, 35410, 35503,
    35597, 35690, 35783, 35877, 35970, 36063, 36157, 36250, 36343, 36436, 36529, 36622, 36715, 36808,
    36901, 36994, 37087, 37180, 37273, 37365, 37458, 37551, 37643, 37736, 37829, 37921, 38014, 38106,
    38199, 38291, 38383, 38476, 38568, 38660, 38752, 38844, 38937, 39029, 39121, 39213, 39305, 39397,
    39488, 39580, 39672, 39764, 39856, 39947, 40039, 40130, 40222, 40314, 40405, 40496, 40588, 40679,
    40771, 40862, 40953, 41044, 41135, 41227, 41318, 41409, 41500, 41591, 41682, 41772, 41863, 41954,
    42045, 42135, 42226, 42317, 42407, 42498, 42588, 42679, 42769, 42859, 42950, 43040, 43130, 43220,
    43311, 43401, 43491, 43581, 43671, 43761, 43851, 43940, 44030, 44120, 44210, 44299, 44389, 44479,
    44568, 44658, 44747, 44836, 44926, 45015, 45104, 45194, 45283, 45372, 45461, 45550, 45639, 45728,
    45817, 45906, 45994, 46083, 46172, 46261, 46349, 46438, 46526, 46615, 46703, 46792, 46880, 46968,
    47056, 47145, 47233, 47321, 47409, 47497, 47585, 47673, 47761, 47849, 47936, 48024, 48112, 48199,
    48287, 48375, 48462, 48549, 48637, 48724, 48811, 48899, 48986, 49073, 49160, 49247, 49334, 49421,
    49508, 49595, 49682, 49768, 49855, 49942, 50028, 50115, 50201, 50288, 50374, 50461, 50547, 50633,
    50719, 50805, 50892, 50978, 51064, 51150, 51235, 51321, 51407, 51493, 51579, 51664, 51750, 51835,
    51921, 52006, 52092, 52177, 52262, 52347, 52433, 52518, 52603, 52688, 52773, 52858, 52942, 53027,
    53112, 53197, 53281, 53366, 53450, 53535, 53619, 53704, 53788, 53872, 53956, 54041, 54125, 54209,
    54293, 54377, 54461, 54544, 54628, 54712, 54796, 54879, 54963, 55046, 55130, 55213, 55296, 55380,
    55463, 55546, 55629, 55712, 55795, 55878, 55961, 56044, 56127, 56209, 56292, 56375, 56457, 56540,
    56622, 56705, 56787, 56869, 56951, 57034, 57116, 57198, 57280, 57362, 57444, 57525, 57607, 57689,
    57770, 57852, 57934, 58015, 58096, 58178, 58259, 58340, 58422, 58503, 58584, 58665, 58746, 58827,
    58907, 58988, 59069, 59150, 59230, 59311, 59391, 59472, 59552, 59632, 59712, 59793, 59873, 59953,
    60033, 60113, 60193, 60272, 60352, 60432, 60511, 60591, 60671, 60750, 60829, 60909, 60988, 61067,
    61146, 61225, 61304, 61383, 61462, 61541, 61620, 61699, 61777, 61856, 61934, 62013, 62091, 62170,
    62248, 62326, 62404, 62482, 62560, 62638, 62716, 62794, 62872, 62950, 63027, 63105, 63182, 63260,
    63337, 63415, 63492, 63569, 63646, 63723, 63800, 63877, 63954, 64031, 64108, 64185, 64261, 64338,
    64414, 64491, 64567, 64643, 64720, 64796, 64872, 64948, 65024, 65100, 65176, 65252, 65327, 65403,
    65479, 65554, 65630, 65705, 65780, 65856, 65931, 66006, 66081, 66156, 66231, 66306, 66381, 66456,
    66530, 66605, 66679, 66754, 66828, 66903, 66977, 67051, 67125, 67199, 67273, 67347, 67421, 67495,
    67569, 67642, 67716, 67790, 67863, 67936, 68010, 68083, 68156, 68229, 68302, 68375, 68448, 68521,
    68594, 68667, 68739, 68812, 68885, 68957, 69029, 69102, 69174, 69246, 69318, 69390, 69462, 69534,
    69606, 69678, 69749, 69821, 69892, 69964, 70035, 70107, 70178, 70249, 70320, 70391, 70462, 70533,
    70604, 70675, 70746, 70816, 70887, 70957, 71028, 71098, 71168, 71238, 71309, 71379, 71449, 71519,
    71588, 71658, 71728, 71798, 71867, 71937, 72006, 72075, 72145, 72214, 72283, 72352, 72421, 72490,
    72559, 72627, 72696, 72765, 72833, 72902, 72970, 73039, 73107, 73175, 73243, 73311, 73379, 73447,
    73515, 73583, 73650, 73718, 73785, 73853, 73920, 73988, 74055, 74122, 74189, 74256, 74323, 74390,
    74457, 74523, 74590, 74656, 74723, 74789, 74856, 74922, 74988, 75054, 75120, 75186, 75252, 75318,
    75384, 75449, 75515, 75580, 75646, 75711, 75776, 75842, 75907, 75972, 76037, 76102, 76167, 76231,
    76296, 76361, 76425, 76490, 76554, 76618, 76682, 76747, 76811, 76875, 76939, 77002, 77066, 77130,
    77193, 77257, 77320, 77384, 77447, 77510, 77573, 77636, 77699, 77762, 77825, 77888, 77951, 78013,
    78076, 78138, 78200, 78263, 78325, 78387, 78449, 78511, 78573, 78635, 78696, 78758, 78820, 78881,
    78943, 79004, 79065, 79126, 79188, 79249, 79309, 79370, 79431, 79492, 79552, 79613, 79673, 79734,
    79794, 79854, 79915, 79975, 80035, 80094, 80154, 80214, 80274, 80333, 80393, 80452, 80512, 80571,
    80630, 80689, 80748, 80807, 80866, 80925, 80983, 81042, 81101, 81159, 81217, 81276, 81334, 81392,
    81450, 81508, 81566, 81624, 81681, 81739, 81797, 81854, 81912, 81969, 82026, 82083, 82140, 82197,
    82254, 82311, 82368, 82424, 82481, 82537, 82594, 82650, 82706, 82763, 82819, 82875, 82931, 82986,
    83042, 83098, 83153, 83209, 83264, 83320, 83375, 83430, 83485, 83540, 83595, 83650, 83705, 83759,
    83814, 83868, 83923, 83977, 84031, 84086, 84140, 84194, 84247, 84301, 84355, 84409, 84462, 84516,
    84569, 84622, 84676, 84729, 84782, 84835, 84888, 84941, 84993, 85046, 85099, 85151, 85203, 85256,
    85308, 85360, 85412, 85464, 85516, 85568, 85619, 85671, 85723, 85774, 85825, 85877, 85928, 85979,
    86030, 86081, 86132, 86182, 86233, 86284, 86334, 86385, 86435, 86485, 86535, 86585, 86635, 86685,
    86735, 86785, 86834, 86884, 86933, 86983, 87032, 87081, 87130, 87179, 87228, 87277, 87326, 87375,
    87423, 87472, 87520, 87568, 87617, 87665, 87713, 87761, 87809, 87857, 87904, 87952, 87999, 88047,
    88094, 88141, 88189, 88236, 88283, 88330, 88377, 88423, 88470, 88516, 88563, 88609, 88656, 88702,
    88748, 88794, 88840, 88886, 88932, 88977, 89023, 89068, 89114, 89159, 89204, 89249, 89295, 89339,
    89384, 89429, 89474, 89518, 89563, 89607, 89652, 89696, 89740, 89784, 89828, 89872, 89916, 89960,
    90003, 90047, 90090, 90134, 90177, 90220, 90263, 90306, 90349, 90392, 90434, 90477, 90520, 90562,
    90604, 90647, 90689, 90731, 90773, 90815, 90857, 90898, 90940, 90982, 91023, 91064, 91106, 91147,
    91188, 91229, 91270, 91311, 91351, 91392, 91433, 91473, 91513, 91554, 91594, 91634, 91674, 91714,
    91754, 91793, 91833, 91872, 91912, 91951, 91990, 92030, 92069, 92108, 92147, 92185, 92224, 92263,
    92301, 92340, 92378, 92416, 92454, 92492, 92530, 92568, 92606, 92644, 92681, 92719, 92756, 92793,
    92831, 92868, 92905, 92942, 92979, 93015, 93052, 93089, 93125, 93161, 93198, 93234, 93270, 93306,
    93342, 93378, 93414, 93449, 93485, 93520, 93556, 93591, 93626, 93661, 93696, 93731, 93766, 93800,
    93835, 93870, 93904, 93938, 93973, 94007, 94041, 94075, 94109, 94142, 94176, 94210, 94243, 94276,
    94310, 94343, 94376, 94409, 94442, 94475, 94508, 94540, 94573, 94605, 94637, 94670, 94702, 94734,
    94766, 94798, 94830, 94861, 94893, 94924, 94956, 94987, 95018, 95049, 95080, 95111, 95142, 95173,
    95204, 95234, 95265, 95295, 95325, 95355, 95385, 95415, 95445, 95475, 95505, 95534, 95564, 95593,
    95623, 95652, 95681, 95710, 95739, 95768, 95796, 95825, 95854, 95882, 95910, 95939, 95967, 95995,
    96023, 96051, 96078, 96106, 96134, 96161, 96188, 96216, 96243, 96270, 96297, 96324, 96351, 96378,
    96404, 96431, 96457, 96483, 96510, 96536, 96562, 96588, 96614, 96639, 96665, 96691, 96716, 96741,
    96767, 96792, 96817, 96842, 96867, 96892, 96916, 96941, 96965, 96990, 97014, 97038, 97062, 97086,
    97110, 97134, 97158, 97181, 97205, 97228, 97252, 97275, 97298, 97321, 97344, 97367, 97390, 97412,
    97435, 97457, 97480, 97502, 97524, 97546, 97568, 97590, 97612, 97633, 97655, 97676, 97698, 97719,
    97740, 97761, 97782, 97803, 97824, 97845, 97865, 97886, 97906, 97926, 97947, 97967, 97987, 98007,
    98026, 98046, 98066, 98085, 98105, 98124, 98143, 98162, 98181, 98200, 98219, 98238, 98257, 98275,
    98294, 98312, 98330, 98348, 98366, 98384, 98402, 98420, 98438, 98455, 98473, 98490, 98507, 98524,
    98541, 98558, 98575, 98592, 98609, 98625, 98642, 98658, 98674, 98691, 98707, 98723, 98738, 98754,
    98770, 98785, 98801, 98816, 98832, 98847, 98862, 98877, 98892, 98907, 98921, 98936, 98950, 98965,
    98979, 98993, 99007, 99021, 99035, 99049, 99063, 99076, 99090, 99103, 99117, 99130, 99143, 99156,
    99169, 99182, 99194, 99207, 99219, 99232, 99244, 99256, 99269, 99281, 99292, 99304, 99316, 99328,
    99339, 99351, 99362, 99373, 99384, 99395, 99406, 99417, 99428, 99438, 99449, 99459, 99470, 99480,
    99490, 99500, 99510, 99520, 99530, 99539, 99549, 99558, 99567, 99577, 99586, 99595, 99604, 99613,
    99621, 99630, 99639, 99647, 99655, 99664, 99672, 99680, 99688, 99696, 99703, 99711, 99718, 99726,
    99733, 99740, 99748, 99755, 99762, 99768, 99775, 99782, 99788, 99795, 99801, 99807, 99814, 99820,
    99826, 99831, 99837, 99843, 99848, 99854, 99859, 99864, 99870, 99875, 99880, 99884, 99889, 99894,
    99898, 99903, 99907, 99911, 99915, 99920, 99923, 99927, 99931, 99935, 99938, 99942, 99945, 99948,
    99951, 99955, 99957, 99960, 99963, 99966, 99968, 99971, 99973, 99975, 99977, 99980, 99981, 99983,
    99985, 99987, 99988, 99990, 99991, 99992, 99993, 99995, 99995, 99996, 99997, 99998, 99998, 99999,
    99999, 99999, 99999, 100000
  >>

HalfPi == 1571

\* Math.PI
Pi == 3142

\* the fixed-point value of 1.0 for sines and cosines
TrigScale == 100000

Abs(v) == IF v < 0 THEN -v ELSE v

Sgn(v) == IF v < 0 THEN -1 ELSE 1

\* Math.max, Math.min
Max(a, b) == IF a >= b THEN a ELSE b

Min(a, b) == IF a <= b THEN a ELSE b

\* Math.sin, Math.cos
Sin(a) ==
  LET m == a % (2 * Pi)
      f == IF m <= HalfPi THEN m
           ELSE IF m <= Pi THEN Pi - m
           ELSE IF m <= Pi + HalfPi THEN m - Pi
           ELSE 2 * Pi - m
  IN  (IF m <= Pi THEN 1 ELSE -1) * SinTab[f + 1]

Cos(a) == Sin(a + HalfPi)

\* one digit d of the long multiplication: h is <<q, r>> so far
MulDivStep(h, a, d, c) ==
  <<h[1] * 100 + ((h[2] * 100 + a * d) \div c), (h[2] * 100 + a * d) % c>>

\* <<q, r>> with a * b = q * c + r and 0 <= r < c, for a, b >= 0 and c > 0:
\* long multiplication over the base-100 digits of b, no product above 2^31
RECURSIVE MulDivAcc(_, _, _)
MulDivAcc(a, b, c) ==
  IF b = 0 THEN <<0, 0>>
  ELSE MulDivStep(MulDivAcc(a, b \div 100, c), a, b % 100, c)

\* the quotient of h = <<q, r>> rounded to nearest
MulDivRound(h, c) == IF 2 * h[2] >= c THEN h[1] + 1 ELSE h[1]

\* a * b / c rounded to nearest (the double-precision product and quotient)
MulDiv(a, b, c) ==
  Sgn(a) * Sgn(b) * MulDivRound(MulDivAcc(Abs(a), Abs(b), c), c)

RECURSIVE SqrtSearch(_, _, _)
SqrtSearch(n, lo, hi) ==
  IF lo >= hi THEN lo
  ELSE LET mid == (lo + hi + 1) \div 2
       IN  IF mid * mid <= n THEN SqrtSearch(n, mid, hi)
           ELSE SqrtSearch(n, lo, mid - 1)

\* f or f + 1, whichever is nearer to the root of n, f the floor of the root
SqrtRound(n, f) == IF n - f * f > f THEN f + 1 ELSE f

\* Math.sqrt, rounded to the nearest length unit
Sqrt(n) == SqrtRound(n, SqrtSearch(n, 0, 46340))

\* first angle in lo..hi whose cosine is <= c (Cos decreases on 0..Pi)
RECURSIVE AcosSearch(_, _, _)
AcosSearch(c, lo, hi) ==
  IF lo >= hi THEN lo
  ELSE LET mid == (lo + hi) \div 2
       IN  IF Cos(mid) <= c THEN AcosSearch(c, lo, mid)
           ELSE AcosSearch(c, mid + 1, hi)

\* t or t - 1, whichever has its cosine nearer to c
AcosNearest(c, t) ==
  IF t > 0 /\ Abs(Cos(t - 1) - c) < Abs(Cos(t) - c) THEN t - 1 ELSE t

\* Math.acos for -TrigScale <= c <= TrigScale: the angle in 0..Pi whose
\* cosine is nearest to c
Acos(c) == AcosNearest(c, AcosSearch(c, 0, Pi))

\* y * cos(t) - x * sin(t): positive while t is below the direction of (x, y)
Cross(y, x, t) == y * Cos(t) - x * Sin(t)

RECURSIVE AtanSearch(_, _, _, _)
AtanSearch(y, x, lo, hi) ==
  IF lo >= hi THEN lo
  ELSE LET mid == (lo + hi) \div 2
       IN  IF Cross(y, x, mid) <= 0 THEN AtanSearch(y, x, lo, mid)
           ELSE AtanSearch(y, x, mid + 1, hi)

\* t or t - 1, whichever is nearer to the direction (x, y)
AtanNearest(y, x, t) ==
  IF t > 0 /\ Abs(Cross(y, x, t - 1)) < Abs(Cross(y, x, t)) THEN t - 1 ELSE t

\* the angle in 0..HalfPi of the direction (x, y), x >= 0, y >= 0
AtanQuadrant(y, x) == AtanNearest(y, x, AtanSearch(y, x, 0, HalfPi))

\* Math.atan2: the result lies in -Pi..Pi and atan2(0, 0) is 0.  Both
\* arguments are first scaled down together to at most 20000 in magnitude.
Atan2(y, x) ==
  IF x = 0 /\ y = 0 THEN 0
  ELSE LET k == Max(Abs(x), Abs(y)) \div 20000 + 1
           q == AtanQuadrant(Abs(y) \div k, Abs(x) \div k)
       IN  IF x >= 0 THEN (IF y >= 0 THEN q ELSE -q)
           ELSE (IF y >= 0 THEN Pi - q ELSE -(Pi - q))

-----------------------------------------------------------------------------
(***************************************************************************)
(* ik2link.ts, fk2link.ts                                                  *)
(***************************************************************************)

\* Default linkage for SO101 / XLeRobot arms: theta1Offset = atan2(0.028,
\* 0.11257) = 0.24379, theta2Offset = atan2(0.0052, 0.1349) + theta1Offset
\* = 0.28231
SO101_LINKAGE ==
  [l1 |-> 1159, l2 |-> 1350, theta1Offset |-> 244, theta2Offset |-> 282,
   joint2Range |-> <<-100, 3450>>, joint3Range |-> <<-200, Pi>>]

\* A LinkageParams value with ranges wide enough that no solution is clamped
WIDE_LINKAGE ==
  [l1 |-> 1200, l2 |-> 1000, theta1Offset |-> 0, theta2Offset |-> 0,
   joint2Range |-> <<-2 * Pi, 2 * Pi>>, joint3Range |-> <<-2 * Pi, 2 * Pi>>]

\* the factor by which r * r is scaled before its root is taken, so that the
\* root keeps at least three digits and the scaled square stays below 2^31
Fine(rsq) ==
  IF rsq <= 2000 THEN 1000
  ELSE IF rsq <= 200000 THEN 100
  ELSE IF rsq <= 20000000 THEN 10
  ELSE 1

\* v * (rLimit / r) with r the root of rsq taken to 1/k of a length unit
ScaleBy(v, rLimit, rsq, k) == MulDiv(v, rLimit * k, Sqrt(rsq * k * k))

\* x *= s with s = rLimit / r, r the double root of rsq.  A zero r makes s
\* infinite and the product NaN, which the model records in the flag nan.
ScaleTo(v, rLimit, rsq) ==
  IF rsq = 0 THEN 0 ELSE ScaleBy(v, rLimit, rsq, Fine(rsq))

\* Variant of ReachFar that never pulls a far target in to l1 + l2
ReachFar_Never(x, y, r, rsq, rMax) ==
  [x |-> x, y |-> y, r |-> r, rsq |-> rsq, nan |-> FALSE]

\* Lines 42-47: a target beyond full extension is pulled in to rMax.  rsq is
\* r * r (Math.sqrt followed by r * r gives x*x + y*y back to one ulp, so
\* the square is carried exactly).  On the rim itself the comparison of the
\* two doubles can fall either way; both branches then give the same point
\* to within an ulp, and the result does not record which was taken.
ReachFar(x, y, r, rsq, rMax) ==
  IF rsq > rMax * rMax
  THEN [x |-> ScaleTo(x, rMax, rsq), y |-> ScaleTo(y, rMax, rsq), r |-> rMax,
        rsq |-> rMax * rMax, nan |-> rsq = 0]
  ELSE [x |-> x, y |-> y, r |-> r, rsq |-> rsq, nan |-> FALSE]

\* Variant of ReachNear whose branch is not gated on r > 0
ReachNear_NoZeroGate(t, rMin) ==
  IF t.rsq < rMin * rMin
  THEN [x |-> ScaleTo(t.x, rMin, t.rsq), y |-> ScaleTo(t.y, rMin, t.rsq),
        r |-> rMin, rsq |-> rMin * rMin, nan |-> t.nan \/ t.rsq = 0]
  ELSE t

\* Lines 48-53: a non-zero target inside the folded radius is pushed out to
\* rMin (on the rim itself, see ReachFar)
ReachNear(t, rMin) ==
  IF t.rsq < rMin * rMin /\ t.rsq > 0
  THEN [x |-> ScaleTo(t.x, rMin, t.rsq), y |-> ScaleTo(t.y, rMin, t.rsq),
        r |-> rMin, rsq |-> rMin * rMin, nan |-> t.nan \/ t.rsq = 0]
  ELSE t

\* Lines 38-53 of inverseKinematics2Link: the target clamped to the reachable
\* annulus
ReachClamp(x0, y0, p) ==
  ReachNear(ReachFar(x0, y0, Sqrt(x0 * x0 + y0 * y0), x0 * x0 + y0 * y0,
                     p.l1 + p.l2),
            Abs(p.l1 - p.l2))

\* Line 55: cosTheta2 = -(r*r - l1*l1 - l2*l2) / (2*l1*l2)
CosTheta2(rsq, p) ==
  MulDiv(-(rsq - p.l1 * p.l1 - p.l2 * p.l2), TrigScale, 2 * p.l1 * p.l2)

\* Line 56: the argument handed to Math.acos
AcosArg(c) == Max(-TrigScale, Min(TrigScale, c))

\* Lines 59 and 20 (the same expression in both files).  Math.sin(Math.PI)
\* is 1.2e-16 and not 0: with l1 = l2 and theta2 = PI the arguments are
\* (l2 * 1.2e-16, 0) and the result is PI / 2, not atan2(0, 0).
Gamma(theta2, p) ==
  IF p.l1 = p.l2 /\ p.l2 > 0 /\ Abs(theta2) = Pi
  THEN Sgn(theta2) * HalfPi
  ELSE Atan2(p.l2 * Sin(theta2), p.l1 * TrigScale + p.l2 * Cos(theta2))

\* Variant of ClampRange that lets every value through
ClampRange_Off(range, v) == v

\* Lines 62-63
ClampRange(range, v) == Max(range[1], Min(range[2], v))

\* Lines 62-65: the joint pair, with the values it was computed from
IKJoints(t, cosTheta2, theta1, theta2, p) ==
  [x |-> t.x, y |-> t.y, r |-> t.r,
   nan |-> t.nan, cosTheta2 |-> cosTheta2, acosArg |-> AcosArg(cosTheta2),
   theta1 |-> theta1, theta2 |-> theta2,
   joint2 |-> ClampRange(p.joint2Range, theta1 + p.theta1Offset),
   joint3 |-> ClampRange(p.joint3Range, theta2 + p.theta2Offset)]

\* Lines 58-60: theta1 = beta + gamma
IKAngles(t, cosTheta2, theta2, p) ==
  IKJoints(t, cosTheta2, Atan2(t.y, t.x) + Gamma(theta2, p), theta2, p)

\* Lines 55-56: theta2 = PI - acos(clamped cosTheta2)
IKElbow(t, cosTheta2, p) ==
  IKAngles(t, cosTheta2, Pi - Acos(AcosArg(cosTheta2)), p)

\* inverseKinematics2Link with every intermediate value
IKTrace(x0, y0, p) ==
  IKElbow(ReachClamp(x0, y0, p), CosTheta2(ReachClamp(x0, y0, p).rsq, p), p)

\* Line 65: return [joint2, joint3]
JointPair(t) == <<t.joint2, t.joint3>>

inverseKinematics2Link(x, y, p) == JointPair(IKTrace(x, y, p))

\* r, beta in Cartesian coordinates (fk2link.ts line 23)
Polar(r, beta) ==
  <<MulDiv(r, Cos(beta), TrigScale), MulDiv(r, Sin(beta), TrigScale)>>

\* Variant of FKAngles that adds gamma instead of subtracting it
FKAngles_BetaPlus(theta1, theta2, p) ==
  Polar(Sqrt(p.l1 * p.l1 + p.l2 * p.l2
             + MulDiv(2 * p.l1 * p.l2, Cos(theta2), TrigScale)),
        theta1 + Gamma(theta2, p))

\* fk2link.ts lines 19-23: r, gamma, beta and the returned point
FKAngles(theta1, theta2, p) ==
  Polar(Sqrt(p.l1 * p.l1 + p.l2 * p.l2
             + MulDiv(2 * p.l1 * p.l2, Cos(theta2), TrigScale)),
        theta1 - Gamma(theta2, p))

\* fk2link.ts lines 9-24
forwardKinematics2Link(joint2, joint3, p) ==
  FKAngles(joint2 - p.theta1Offset, joint3 - p.theta2Offset, p)

-----------------------------------------------------------------------------
(***************************************************************************)
(* useArmController.ts: configuration                                      *)
(***************************************************************************)

JOINT_STEP == 10

EE_STEP == 10

PITCH_STEP == 12

DEFAULT_TIP_LENGTH == 1080

DEFAULT_GRIPPER_OPEN == 1500

DEFAULT_GRIPPER_CLOSED == -250

INITIAL_EE == <<1620, 1180>>

\* An optional configuration field is <<v>> when given and << >> when omitted
Given(opt) == opt # << >>

\* opt ?? default
OrElse(opt, default) == IF Given(opt) THEN opt[1] ELSE default

\* a JavaScript array read a[j], j counted from 0
At(a, j) == a[j + 1]

\* configs.ts: 16 actuators [forward, turn, L_rot, L_pitch, L_elbow, L_wristP,
\* L_wristR, L_jaw, R_rot, R_pitch, R_elbow, R_wristP, R_wristR, R_jaw,
\* head_pan, head_tilt]
XLEROBOT_HOME_JOINTS ==
  <<0, 0, 1571, 1579, 1578, 1, 1570, -250,
    -1571, 1579, 1578, 1, 1570, -250, 0, 0>>

\* configs.ts: homeJoints of the so101 entry
SO101_HOME_JOINTS == <<16, 2052, 2131, -85, 1586, -375>>

\* XLeRobotController.tsx
XLEROBOT_CONFIG ==
  [numActuators |-> 16,
   base |-> <<[indices |-> <<0, 1>>,
               keys |-> <<"KeyW", "KeyS", "KeyA", "KeyD">>,
               speed |-> <<1>>]>>,
   arms |-> <<
     [indices |-> <<2, 3, 4, 5, 6, 7>>,
      keys |-> <<"Digit7", "KeyY", "Digit9", "KeyI", "Digit8", "KeyU",
                 "Digit0", "KeyO", "Minus", "KeyP", "KeyV">>,
      initialJoints |-> <<SubSeq(XLEROBOT_HOME_JOINTS, 3, 8)>>,
      initialRotation |-> << >>, initialRoll |-> << >>, linkage |-> << >>,
      tipLength |-> << >>, gripperOpen |-> << >>, gripperClosed |-> << >>],
     [indices |-> <<8, 9, 10, 11, 12, 13>>,
      keys |-> <<"KeyH", "KeyN", "KeyK", "Comma", "KeyJ", "KeyM",
                 "KeyL", "Period", "Semicolon", "Slash", "KeyB">>,
      initialJoints |-> <<SubSeq(XLEROBOT_HOME_JOINTS, 9, 14)>>,
      initialRotation |-> << >>, initialRoll |-> << >>, linkage |-> << >>,
      tipLength |-> << >>, gripperOpen |-> << >>, gripperClosed |-> << >>]>>,
   head |-> <<[indices |-> <<14, 15>>,
               keys |-> <<"KeyR", "KeyT", "KeyF", "KeyG">>]>>,
   homeJoints |-> XLEROBOT_HOME_JOINTS]

\* SO101Controller.tsx
SO101_CONFIG ==
  [numActuators |-> 6,
   base |-> << >>,
   arms |-> <<
     [indices |-> <<0, 1, 2, 3, 4, 5>>,
      keys |-> <<"KeyD", "KeyA", "KeyW", "KeyS", "KeyQ", "KeyE",
                 "KeyR", "KeyF", "KeyZ", "KeyC", "KeyV">>,
      initialJoints |-> <<SO101_HOME_JOINTS>>,
      initialRotation |-> << >>, initialRoll |-> << >>, linkage |-> << >>,
      tipLength |-> << >>, gripperOpen |-> << >>, gripperClosed |-> << >>]>>,
   head |-> << >>,
   homeJoints |-> SO101_HOME_JOINTS]

\* An ArmControllerConfig whose arm gives only the first three initialJoints
\* (ArmConfig.initialJoints is a number[] of any length, lines 82-90)
SHORT_CONFIG ==
  [numActuators |-> 6,
   base |-> << >>,
   arms |-> <<
     [indices |-> <<0, 1, 2, 3, 4, 5>>,
      keys |-> <<"KeyD", "KeyA", "KeyW", "KeyS", "KeyQ", "KeyE",
                 "KeyR", "KeyF", "KeyZ", "KeyC", "KeyV">>,
      initialJoints |-> <<SubSeq(SO101_HOME_JOINTS, 1, 3)>>,
      initialRotation |-> << >>, initialRoll |-> << >>, linkage |-> << >>,
      tipLength |-> << >>, gripperOpen |-> << >>, gripperClosed |-> << >>]>>,
   head |-> << >>,
   homeJoints |-> SO101_HOME_JOINTS]

\* An ArmControllerConfig whose arm gives no initialJoints (lines 91-99)
BARE_CONFIG == [SO101_CONFIG EXCEPT !.arms[1].initialJoints = << >>]

\* An ArmControllerConfig whose arm lists seven actuator indices
\* (ArmConfig.indices is a number[] of any length)
LONG_CONFIG ==
  [SO101_CONFIG EXCEPT !.numActuators = 7,
                       !.arms[1].indices = <<0, 1, 2, 3, 4, 5, 6>>,
                       !.homeJoints = Append(SO101_HOME_JOINTS, 0)]

\* An ArmControllerConfig whose arm lists seven actuator indices and gives
\* no initialJoints
BARE_LONG_CONFIG == [LONG_CONFIG EXCEPT !.arms[1].initialJoints = << >>]

\* An ArmControllerConfig whose arm lists four actuator indices
NARROW_CONFIG ==
  [SO101_CONFIG EXCEPT !.numActuators = 4,
                       !.arms[1].indices = <<0, 1, 2, 3>>,
                       !.homeJoints = SubSeq(SO101_HOME_JOINTS, 1, 4)]

\* An ArmControllerConfig whose arm binds the ten movement keys and no
\* gripper key (ArmConfig.keys is a string[] of any length)
FEWKEYS_CONFIG ==
  [SO101_CONFIG EXCEPT !.arms[1].keys = SubSeq(@, 1, 10)]

\* p: LinkageParams = SO101_LINKAGE
LinkageOf(arm) == OrElse(arm.linkage, SO101_LINKAGE)

\* Lines 75-105: the state of one arm after construction
\* Lines 93-98: the joints an arm without initialJoints starts from, j the IK
\* solution for INITIAL_EE
DefaultJoints(arm, j) ==
  <<OrElse(arm.initialRotation, 0), j[1], j[2], j[1] - j[2],
    OrElse(arm.initialRoll, 0),
    OrElse(arm.gripperClosed, DEFAULT_GRIPPER_CLOSED)>>

\* Lines 77 and 94-99: a Float64Array of n zeros with the entries of seq
\* assigned to its first slots; an assignment past the end is dropped
Prefix(seq, n) == [j \in 1..n |-> IF j <= Len(seq) THEN seq[j] ELSE 0]

InitArmState(arm) ==
  LET n  == Len(arm.indices)
      ij == OrElse(arm.initialJoints, << >>)
  IN  [targetJoints |->
         IF Given(arm.initialJoints)
         THEN [j \in 1..n |-> IF j <= Len(ij) THEN ij[j] ELSE 0]
         ELSE Prefix(DefaultJoints(arm,
                       inverseKinematics2Link(INITIAL_EE[1], INITIAL_EE[2],
                                              LinkageOf(arm))), n),
       eePos |->
         IF Given(arm.initialJoints) /\ Len(ij) >= 3
         THEN forwardKinematics2Link(ij[2], ij[3], LinkageOf(arm))
         ELSE INITIAL_EE,
       pitch |->
         IF Given(arm.initialJoints) /\ Len(ij) >= 4
         THEN ij[4] - ij[2] + ij[3] ELSE 0,
       gripperOpen |-> FALSE, gripperKeyWasDown |-> FALSE,
       controlActive |-> FALSE, ikWasEnabled |-> FALSE]

-----------------------------------------------------------------------------
(***************************************************************************)
(* useArmController.ts: the before-physics-step callback.  It works on a   *)
(* record w of everything a step reads and writes:                         *)
(*   ctrl        data.ctrl, the simulator's actuator commands              *)
(*   arms        armStates.current                                         *)
(*   prevActive  baseState.current.prevActive                              *)
(*   head        headState.current                                         *)
(*   ikEnabled   ikCtx.ikEnabledRef.current                                *)
(*   calls       the calls made on ikCtx during this step, in order, each  *)
(*               with the arm (loop index) whose iteration made it         *)
(*   written     the actuator indices assigned during this step            *)
(***************************************************************************)

\* k[code], k the keys.current table
Held(k, code) == code \in k

\* k[ak[j]]: a binding past the end of the list reads as not held
KeyHeld(k, ak, j) == j < Len(ak) /\ Held(k, At(ak, j))

\* data.ctrl[a] = v
WriteCtrl(w, a, v) ==
  IF a \in DOMAIN w.ctrl
  THEN [w EXCEPT !.ctrl[a] = v, !.written = @ \cup {a}]
  ELSE w

\* ikCtx.setIkEnabled(on), called in the iteration of arm i
SetIkEnabled(w, i, on) ==
  [w EXCEPT !.ikEnabled = on,
            !.calls = Append(@, <<i, IF on THEN "setIkEnabled(true)"
                                           ELSE "setIkEnabled(false)">>)]

\* ikCtx.syncTargetToSite(), called in the iteration of arm i
SyncTargetToSite(w, i) ==
  [w EXCEPT !.calls = Append(@, <<i, "syncTargetToSite">>)]

\* Variant of BaseDrive that writes zero on every step with neither key held
BaseDrive_ZeroWhileIdle(w, k, b) ==
  LET speed == OrElse(b.speed, 1)
      a     == At(b.indices, 0)
  IN  IF Held(k, At(b.keys, 0))
      THEN [WriteCtrl(w, a, -speed) EXCEPT !.prevActive[1] = TRUE]
      ELSE IF Held(k, At(b.keys, 1))
      THEN [WriteCtrl(w, a, speed) EXCEPT !.prevActive[1] = TRUE]
      ELSE [WriteCtrl(w, a, 0) EXCEPT !.prevActive[1] = FALSE]

\* Lines 134-143: the forward/back axis
BaseDrive(w, k, b) ==
  LET speed == OrElse(b.speed, 1)
      a     == At(b.indices, 0)
  IN  IF Held(k, At(b.keys, 0))
      THEN [WriteCtrl(w, a, -speed) EXCEPT !.prevActive[1] = TRUE]
      ELSE IF Held(k, At(b.keys, 1))
      THEN [WriteCtrl(w, a, speed) EXCEPT !.prevActive[1] = TRUE]
      ELSE IF w.prevActive[1]
      THEN [WriteCtrl(w, a, 0) EXCEPT !.prevActive[1] = FALSE]
      ELSE w

\* Variant of BaseTurn in which the turn-right key masks the turn-left key
BaseTurn_RightWins(w, k, b) ==
  LET speed == OrElse(b.speed, 1)
      a     == At(b.indices, 1)
  IN  IF Held(k, At(b.keys, 3))
      THEN [WriteCtrl(w, a, -speed) EXCEPT !.prevActive[2] = TRUE]
      ELSE IF Held(k, At(b.keys, 2))
      THEN [WriteCtrl(w, a, speed) EXCEPT !.prevActive[2] = TRUE]
      ELSE IF w.prevActive[2]
      THEN [WriteCtrl(w, a, 0) EXCEPT !.prevActive[2] = FALSE]
      ELSE w

\* Lines 145-154: the turn axis
BaseTurn(w, k, b) ==
  LET speed == OrElse(b.speed, 1)
      a     == At(b.indices, 1)
  IN  IF Held(k, At(b.keys, 2))
      THEN [WriteCtrl(w, a, speed) EXCEPT !.prevActive[2] = TRUE]
      ELSE IF Held(k, At(b.keys, 3))
      THEN [WriteCtrl(w, a, -speed) EXCEPT !.prevActive[2] = TRUE]
      ELSE IF w.prevActive[2]
      THEN [WriteCtrl(w, a, 0) EXCEPT !.prevActive[2] = FALSE]
      ELSE w

\* Lines 128-155
BaseStep(w, k, cfg) ==
  IF Given(cfg.base)
  THEN BaseTurn(BaseDrive(w, k, cfg.base[1]), k, cfg.base[1])
  ELSE w

\* Variant of AnyArmKey that counts the gripper key as a movement key
AnyArmKey_WithGripper(k, ak) == \E j \in 0..10 : KeyHeld(k, ak, j)

\* Variant of AnyArmKey that looks at every held key, whichever arm's it is
AnyArmKey_AnyKey(k, ak) == k # {}

\* Lines 166-170: any arm movement key (not the gripper key) is held
AnyArmKey(k, ak) == \E j \in 0..9 : KeyHeld(k, ak, j)

\* Variant of Seize that takes an absent IK handle for an enabled one
Seize_AbsentMeansEnabled(w, arm, i, ikPresent) ==
  LET n   == Len(arm.indices)
      tj  == [j \in 1..n |-> w.ctrl[arm.indices[j]]]
      xy  == forwardKinematics2Link(At(tj, 1), At(tj, 2), LinkageOf(arm))
      was == IF ikPresent THEN w.ikEnabled ELSE TRUE
      w1  == [w EXCEPT !.arms[i].targetJoints = tj,
                       !.arms[i].eePos = xy,
                       !.arms[i].pitch = At(tj, 3) - At(tj, 1) + At(tj, 2),
                       !.arms[i].ikWasEnabled = was,
                       !.arms[i].controlActive = TRUE]
  IN  IF was THEN SetIkEnabled(w1, i, FALSE) ELSE w1

\* Variant of Seize that keeps the stored targets instead of reading ctrl
Seize_KeepStored(w, arm, i, ikPresent) ==
  LET was == IF ikPresent THEN w.ikEnabled ELSE FALSE
      w1  == [w EXCEPT !.arms[i].ikWasEnabled = was,
                       !.arms[i].controlActive = TRUE]
  IN  IF was THEN SetIkEnabled(w1, i, FALSE) ELSE w1

\* Lines 174-185: on the transition from idle to keyboard, load the arm's
\* state from the current actuator commands and take the arm from the IK
Seize(w, arm, i, ikPresent) ==
  LET n   == Len(arm.indices)
      tj  == [j \in 1..n |-> w.ctrl[arm.indices[j]]]
      xy  == forwardKinematics2Link(At(tj, 1), At(tj, 2), LinkageOf(arm))
      was == IF ikPresent THEN w.ikEnabled ELSE FALSE
      w1  == [w EXCEPT !.arms[i].targetJoints = tj,
                       !.arms[i].eePos = xy,
                       !.arms[i].pitch = At(tj, 3) - At(tj, 1) + At(tj, 2),
                       !.arms[i].ikWasEnabled = was,
                       !.arms[i].controlActive = TRUE]
  IN  IF was THEN SetIkEnabled(w1, i, FALSE) ELSE w1

\* Variant of Release that hands back to the IK whatever ikWasEnabled says
Release_AlwaysEnable(w, i, ikPresent) ==
  LET s  == w.arms[i]
      w1 == IF s.controlActive /\ ikPresent
            THEN SetIkEnabled(SyncTargetToSite(w, i), i, TRUE)
            ELSE w
  IN  [w1 EXCEPT !.arms[i].controlActive = FALSE]

\* Variant of Release that does not look at controlActive
Release_EveryIdleStep(w, i, ikPresent) ==
  LET s  == w.arms[i]
      w1 == IF s.ikWasEnabled /\ ikPresent
            THEN SetIkEnabled(SyncTargetToSite(w, i), i, TRUE)
            ELSE w
  IN  [w1 EXCEPT !.arms[i].controlActive = FALSE]

\* Lines 188-194: on the transition from keyboard to idle, hand the arm back
Release(w, i, ikPresent) ==
  LET s  == w.arms[i]
      w1 == IF s.controlActive /\ s.ikWasEnabled /\ ikPresent
            THEN SetIkEnabled(SyncTargetToSite(w, i), i, TRUE)
            ELSE w
  IN  [w1 EXCEPT !.arms[i].controlActive = FALSE]

\* +1, 0 or -1: the net count of a key pair, each held key acting once
Net(k, ak, plus, minus) ==
  (IF KeyHeld(k, ak, plus) THEN 1 ELSE 0) - (IF KeyHeld(k, ak, minus) THEN 1 ELSE 0)

\* Variant of Integrate in which the first key of a pair masks the second
Integrate_FirstKeyWins(s, k, ak) ==
  [s EXCEPT
     !.targetJoints[1] = @ + (IF KeyHeld(k, ak, 0) THEN 1 ELSE Net(k, ak, 0, 1)) * JOINT_STEP,
     !.eePos[1] = @ + (IF KeyHeld(k, ak, 2) THEN 1 ELSE Net(k, ak, 2, 3)) * EE_STEP,
     !.eePos[2] = @ + (IF KeyHeld(k, ak, 4) THEN 1 ELSE Net(k, ak, 4, 5)) * EE_STEP,
     !.pitch = @ + (IF KeyHeld(k, ak, 6) THEN 1 ELSE Net(k, ak, 6, 7)) * PITCH_STEP,
     !.targetJoints[5] = @ + (IF KeyHeld(k, ak, 8) THEN 1 ELSE Net(k, ak, 8, 9)) * JOINT_STEP * 3]

\* Lines 196-212: each held movement key moves its quantity by one increment
Integrate(s, k, ak) ==
  [s EXCEPT !.targetJoints[1] = @ + Net(k, ak, 0, 1) * JOINT_STEP,
            !.eePos[1] = @ + Net(k, ak, 2, 3) * EE_STEP,
            !.eePos[2] = @ + Net(k, ak, 4, 5) * EE_STEP,
            !.pitch = @ + Net(k, ak, 6, 7) * PITCH_STEP,
            !.targetJoints[5] = @ + Net(k, ak, 8, 9) * JOINT_STEP * 3]

\* Variant of GripperToggle that flips the latch on every step the key is held
GripperToggle_Level(s, k, arm) ==
  LET gripperOpen   == OrElse(arm.gripperOpen, DEFAULT_GRIPPER_OPEN)
      gripperClosed == OrElse(arm.gripperClosed, DEFAULT_GRIPPER_CLOSED)
      gripperDown   == KeyHeld(k, arm.keys, 10)
      s1 == IF gripperDown
            THEN [s EXCEPT !.gripperOpen = ~@,
                           !.targetJoints[6] =
                              IF ~s.gripperOpen THEN gripperOpen ELSE gripperClosed]
            ELSE s
  IN  [s1 EXCEPT !.gripperKeyWasDown = gripperDown]

\* Lines 214-220: the gripper latch flips on the key-down edge
\* (targetJoints is a Float64Array: an assignment past its end is dropped, as
\* is an EXCEPT outside the domain)
GripperToggle(s, k, arm) ==
  LET gripperOpen   == OrElse(arm.gripperOpen, DEFAULT_GRIPPER_OPEN)
      gripperClosed == OrElse(arm.gripperClosed, DEFAULT_GRIPPER_CLOSED)
      gripperDown   == KeyHeld(k, arm.keys, 10)
      s1 == IF gripperDown /\ ~s.gripperKeyWasDown
            THEN [s EXCEPT !.gripperOpen = ~@,
                           !.targetJoints[6] =
                              IF ~s.gripperOpen THEN gripperOpen ELSE gripperClosed]
            ELSE s
  IN  [s1 EXCEPT !.gripperKeyWasDown = gripperDown]

\* Variant of SetArmJoints that takes the wrist pitch as an absolute angle
SetArmJoints_AbsolutePitch(s, j) ==
  [s EXCEPT !.targetJoints[2] = j[1],
            !.targetJoints[3] = j[2],
            !.targetJoints[4] = s.pitch]

\* Lines 225-227: the shoulder, elbow and wrist-pitch targets from the IK
\* solution j
SetArmJoints(s, j) ==
  [s EXCEPT !.targetJoints[2] = j[1],
            !.targetJoints[3] = j[2],
            !.targetJoints[4] = j[1] - j[2] + s.pitch]

\* Lines 222-227: solve the IK for the cursor, the tip length compensated
SolveIK(s, arm) ==
  SetArmJoints(s,
    inverseKinematics2Link(
      s.eePos[1],
      s.eePos[2] + MulDiv(OrElse(arm.tipLength, DEFAULT_TIP_LENGTH),
                          Sin(s.pitch), TrigScale),
      LinkageOf(arm)))

\* Lines 230-234, one iteration per actuator of the arm
RECURSIVE WriteJoints(_, _, _, _)
WriteJoints(w, arm, tj, j) ==
  IF j >= Len(arm.indices) THEN w
  ELSE WriteJoints(WriteCtrl(w, At(arm.indices, j), At(tj, j)), arm, tj, j + 1)

\* Variant of WriteArm that writes the gripper actuator only
WriteArm_GripperOnly(w, arm, i) ==
  WriteCtrl(w, At(arm.indices, Len(arm.indices) - 1),
            At(w.arms[i].targetJoints, Len(arm.indices) - 1))

\* Variant of WriteArm that writes every joint whether or not the arm is active
WriteArm_Ungated(w, arm, i) ==
  LET s    == w.arms[i]
      last == Len(arm.indices) - 1
      w1   == WriteJoints(w, arm, s.targetJoints, 0)
  IN  WriteCtrl(w1, At(arm.indices, last), At(s.targetJoints, last))

\* Lines 229-236
WriteArm(w, arm, i) ==
  LET s    == w.arms[i]
      last == Len(arm.indices) - 1
      w1   == IF s.controlActive THEN WriteJoints(w, arm, s.targetJoints, 0) ELSE w
  IN  WriteCtrl(w1, At(arm.indices, last), At(s.targetJoints, last))

\* the arm state s with its targets and cursor read from the actuator
\* commands tj
Reloaded(s, tj, arm) ==
  [s EXCEPT !.targetJoints = tj,
            !.eePos = forwardKinematics2Link(At(tj, 1), At(tj, 2), LinkageOf(arm)),
            !.pitch = At(tj, 3) - At(tj, 1) + At(tj, 2)]

\* Variant of ArmTransition that also reloads an arm with no key held from
\* the actuators, on every such step
ArmTransition_ReloadWhileIdle(w, k, arm, i, ikPresent) ==
  IF AnyArmKey(k, arm.keys)
  THEN IF ~w.arms[i].controlActive THEN Seize(w, arm, i, ikPresent) ELSE w
  ELSE [Release(w, i, ikPresent) EXCEPT
          !.arms[i] = Reloaded(@, [j \in 1..Len(arm.indices) |-> w.ctrl[arm.indices[j]]],
                               arm)]

\* Lines 172-194: the seizure or the release of arm i, as its keys say
ArmTransition(w, k, arm, i, ikPresent) ==
  IF AnyArmKey(k, arm.keys)
  THEN IF ~w.arms[i].controlActive THEN Seize(w, arm, i, ikPresent) ELSE w
  ELSE Release(w, i, ikPresent)

\* Lines 196-236: the targets of arm i moved, solved and written
ArmUpdate(w, k, arm, i) ==
  WriteArm([w EXCEPT !.arms[i] =
              SolveIK(GripperToggle(Integrate(w.arms[i], k, arm.keys), k, arm),
                      arm)],
           arm, i)

\* Lines 159-236: the loop body for arm i
ArmStep(w, k, cfg, i, ikPresent) ==
  ArmUpdate(ArmTransition(w, k, cfg.arms[i], i, ikPresent), k, cfg.arms[i], i)

\* Lines 158-237
RECURSIVE ArmsLoop(_, _, _, _, _)
ArmsLoop(w, k, cfg, i, ikPresent) ==
  IF i > Len(cfg.arms) THEN w
  ELSE ArmsLoop(ArmStep(w, k, cfg, i, ikPresent), k, cfg, i + 1, ikPresent)

\* Variant of HeadStep that writes the head actuators only while a head key
\* is held
HeadStep_WriteWhenHeld(w, k, cfg) ==
  IF Given(cfg.head)
  THEN LET h   == cfg.head[1]
           pan  == w.head[1] + Net(k, h.keys, 0, 1) * JOINT_STEP * 2
           tilt == w.head[2] + Net(k, h.keys, 2, 3) * JOINT_STEP * 2
       IN  IF \E j \in 0..3 : KeyHeld(k, h.keys, j)
           THEN WriteCtrl(WriteCtrl([w EXCEPT !.head = <<pan, tilt>>],
                                    At(h.indices, 0), pan),
                          At(h.indices, 1), tilt)
           ELSE w
  ELSE w

\* Lines 240-251
HeadStep(w, k, cfg) ==
  IF Given(cfg.head)
  THEN LET h   == cfg.head[1]
           pan  == w.head[1] + Net(k, h.keys, 0, 1) * JOINT_STEP * 2
           tilt == w.head[2] + Net(k, h.keys, 2, 3) * JOINT_STEP * 2
       IN  WriteCtrl(WriteCtrl([w EXCEPT !.head = <<pan, tilt>>],
                               At(h.indices, 0), pan),
                     At(h.indices, 1), tilt)
  ELSE w

\* Lines 125-252: one call of the callback with key table k
StepResult(w, k, cfg, ikPresent) ==
  HeadStep(ArmsLoop(BaseStep(w, k, cfg), k, cfg, 1, ikPresent), k, cfg)

-----------------------------------------------------------------------------
(***************************************************************************)
(* The controller as a state machine                                       *)
(***************************************************************************)

VARIABLES
  scenario,    \* which robot is mounted, with which IK handle and keyboard
  ikEnabled,   \* ikCtx.ikEnabledRef.current
  keys,        \* keys.current: the codes whose entry is true
  ctrl,        \* data.ctrl
  armStates,   \* armStates.current
  baseState,   \* baseState.current.prevActive
  headState,   \* headState.current
  steps,       \* callbacks run so far
  snap,        \* the key table the last callback read
  wasActive,   \* controlActive of each arm before the last callback
  calls,       \* the ikCtx calls of the last callback
  written,     \* the actuators the last callback assigned
  externals,   \* external writes made so far
  extStep,     \* the value of steps at the last external write
  blurred,     \* "pending": focus was lost and no key pressed since;
               \* "applied": the last callback ran in that condition
  kin          \* the kinematics exercise: a target and what was computed

vars == <<scenario, ikEnabled, keys, ctrl, armStates, baseState, headState,
          steps, snap, wasActive, calls, written, externals, extStep,
          blurred, kin>>

\* callbacks per run
MaxSteps == 4

\* external actuator writes per run
MaxExternals == 1

\* Poses an external party (IK gizmo, reset, direct write) leaves in an arm's
\* actuators [rotation, pitch, elbow, wristPitch, wristRoll]
PoseHome == <<16, 2052, 2131, -85, 1586>>

PoseLevel == <<300, 1800, 1500, 300, 0>>

PoseBent == <<300, 1800, 1500, 800, 0>>

\* nearly full extension, below the horizontal, the wrist pitched down
PoseLow == <<300, 0, 400, -800, 0>>

\* The runs explored: the robot mounted (App.tsx robotKey), the IK handle
\* useIk returned ("absent", or present with ikEnabledRef "enabled" or
\* "disabled"), the codes the keyboard produces, the poses an external party
\* leaves in an arm and the actuators it writes singly.
Scenarios ==
  <<[robot |-> "so101", ik |-> "enabled", codes |-> {"KeyD", "KeyW"},
     poses |-> {PoseBent, PoseLevel}, arm |-> 1, targets |-> {}],
    [robot |-> "so101", ik |-> "enabled", codes |-> {"KeyS", "KeyV"},
     poses |-> {}, arm |-> 1, targets |-> {2, 5}],
    [robot |-> "so101", ik |-> "disabled", codes |-> {"KeyZ", "KeyR"},
     poses |-> {PoseBent}, arm |-> 1, targets |-> {}],
    [robot |-> "so101", ik |-> "absent", codes |-> {"KeyA", "KeyV"},
     poses |-> {PoseLevel}, arm |-> 1, targets |-> {}],
    [robot |-> "xlerobot", ik |-> "enabled", codes |-> {"Digit7", "KeyH"},
     poses |-> {PoseBent}, arm |-> 2, targets |-> {}],
    [robot |-> "xlerobot", ik |-> "enabled", codes |-> {"Digit9", "KeyB"},
     poses |-> {}, arm |-> 1, targets |-> {4, 13}],
    [robot |-> "xlerobot", ik |-> "absent", codes |-> {"KeyW", "KeyS"},
     poses |-> {}, arm |-> 1, targets |-> {0}],
    [robot |-> "xlerobot", ik |-> "absent", codes |-> {"KeyA", "KeyD"},
     poses |-> {}, arm |-> 1, targets |-> {1}],
    [robot |-> "xlerobot", ik |-> "absent", codes |-> {"KeyR", "KeyF"},
     poses |-> {}, arm |-> 1, targets |-> {14}],
    [robot |-> "xlerobot", ik |-> "enabled", codes |-> {"KeyW", "Digit7"},
     poses |-> {}, arm |-> 1, targets |-> {0, 3}],
    [robot |-> "so101", ik |-> "enabled", codes |-> {"KeyW", "KeyS"},
     poses |-> {PoseLow}, arm |-> 1, targets |-> {}],
    [robot |-> "short", ik |-> "absent", codes |-> {"KeyD"},
     poses |-> {}, arm |-> 1, targets |-> {}],
    [robot |-> "xlerobot", ik |-> "absent", codes |-> {"KeyS", "KeyA"},
     poses |-> {}, arm |-> 1, targets |-> {}],
    [robot |-> "bare", ik |-> "absent", codes |-> {"KeyR"},
     poses |-> {}, arm |-> 1, targets |-> {}],
    [robot |-> "xlerobot", ik |-> "absent", codes |-> {"KeyR", "KeyT"},
     poses |-> {}, arm |-> 1, targets |-> {15}],
    [robot |-> "long", ik |-> "enabled", codes |-> {"KeyV", "KeyD"},
     poses |-> {PoseLevel}, arm |-> 1, targets |-> {5}],
    [robot |-> "narrow", ik |-> "absent", codes |-> {"KeyV"},
     poses |-> {}, arm |-> 1, targets |-> {3}],
    [robot |-> "fewkeys", ik |-> "enabled", codes |-> {"KeyV", "KeyD"},
     poses |-> {}, arm |-> 1, targets |-> {5}],
    [robot |-> "barelong", ik |-> "absent", codes |-> {"KeyV"},
     poses |-> {}, arm |-> 1, targets |-> {}]>>

\* Values an external party writes to a single actuator
ExternalValues == {77}

robot == Scenarios[scenario].robot

\* the ArmControllerConfig the mounted controller passes to the hook
ConfigOf(r) ==
  IF r = "xlerobot" THEN XLEROBOT_CONFIG
  ELSE IF r = "short" THEN SHORT_CONFIG
  ELSE IF r = "bare" THEN BARE_CONFIG
  ELSE IF r = "long" THEN LONG_CONFIG
  ELSE IF r = "barelong" THEN BARE_LONG_CONFIG
  ELSE IF r = "narrow" THEN NARROW_CONFIG
  ELSE IF r = "fewkeys" THEN FEWKEYS_CONFIG
  ELSE SO101_CONFIG

config == ConfigOf(robot)

\* ikCtx is not null
ikPresent == Scenarios[scenario].ik # "absent"

pressable == Scenarios[scenario].codes

InitCtl(n) ==
  LET cfg == ConfigOf(Scenarios[n].robot)
  IN  /\ scenario = n
      /\ ikEnabled = (Scenarios[n].ik = "enabled")
      /\ keys = {}
      /\ ctrl = [a \in 0..(cfg.numActuators - 1) |-> At(cfg.homeJoints, a)]
      /\ armStates = [i \in 1..Len(cfg.arms) |-> InitArmState(cfg.arms[i])]
      /\ baseState = <<FALSE, FALSE>>
      /\ headState = <<0, 0>>
      /\ steps = 0
      /\ snap = {}
      /\ wasActive = [i \in 1..Len(cfg.arms) |-> FALSE]
      /\ calls = << >>
      /\ written = {}
      /\ externals = 0
      /\ extStep = -1
      /\ blurred = "no"

\* every arm of cfg has the documented shape: 6 actuator indices and 11 key
\* bindings (the comments of ArmConfig.indices and ArmConfig.keys)
Documented(cfg) ==
  \A i \in 1..Len(cfg.arms) :
    Len(cfg.arms[i].indices) = 6 /\ Len(cfg.arms[i].keys) = 11

Init ==
  /\ \E n \in 1..Len(Scenarios) :
       Documented(ConfigOf(Scenarios[n].robot)) /\ InitCtl(n)
  /\ kin = [phase |-> "off"]

\* The hook mounted with a configuration that is not of the documented
\* shape: lines 75-105 construct the arm states without looking at the
\* lengths of indices and keys
InitMismatched ==
  /\ \E n \in 1..Len(Scenarios) :
       ~Documented(ConfigOf(Scenarios[n].robot)) /\ InitCtl(n)
  /\ kin = [phase |-> "off"]

\* Line 112: onDown
KeyDown(code) ==
  /\ code \notin keys
  /\ keys' = keys \cup {code}
  /\ blurred' = "no"
  /\ UNCHANGED <<scenario, ikEnabled, ctrl, armStates, baseState, headState,
                 steps, snap, wasActive, calls, written, externals, extStep,
                 kin>>

\* Line 113: onUp
KeyUp(code) ==
  /\ code \in keys
  /\ keys' = keys \ {code}
  /\ UNCHANGED <<scenario, ikEnabled, ctrl, armStates, baseState, headState,
                 steps, snap, wasActive, calls, written, externals, extStep,
                 blurred, kin>>

\* Variant of Blur that leaves the key table as it was
Blur_KeepsKeys ==
  /\ keys # {}
  /\ keys' = keys
  /\ blurred' = "pending"
  /\ UNCHANGED <<scenario, ikEnabled, ctrl, armStates, baseState, headState,
                 steps, snap, wasActive, calls, written, externals, extStep,
                 kin>>

\* Line 114: onBlur
Blur ==
  /\ keys # {}
  /\ keys' = {}
  /\ blurred' = "pending"
  /\ UNCHANGED <<scenario, ikEnabled, ctrl, armStates, baseState, headState,
                 steps, snap, wasActive, calls, written, externals, extStep,
                 kin>>

\* the state the callback leaves behind, w its record at the end
StepTo(w) ==
  /\ ctrl' = w.ctrl
  /\ armStates' = w.arms
  /\ baseState' = w.prevActive
  /\ headState' = w.head
  /\ ikEnabled' = w.ikEnabled
  /\ calls' = w.calls
  /\ written' = w.written

\* Lines 125-252: the engine runs the callback before a physics step
Step ==
  /\ steps < MaxSteps
  /\ StepTo(StepResult([ctrl |-> ctrl, arms |-> armStates,
                        prevActive |-> baseState, head |-> headState,
                        ikEnabled |-> ikEnabled, calls |-> << >>,
                        written |-> {}],
                       keys, config, ikPresent))
  /\ steps' = steps + 1
  /\ snap' = keys
  /\ wasActive' = [i \in DOMAIN armStates |-> armStates[i].controlActive]
  /\ blurred' = IF blurred = "pending" THEN "applied" ELSE "no"
  /\ UNCHANGED <<scenario, keys, externals, extStep, kin>>

\* The IK gizmo, a reset or another writer leaves a pose in arm i's actuators
ExternalPose(i, pose) ==
  /\ externals < MaxExternals
  /\ externals' = externals + 1
  /\ extStep' = steps
  /\ ctrl' = [a \in DOMAIN ctrl |->
                IF \E j \in 1..Len(pose) : config.arms[i].indices[j] = a
                THEN pose[CHOOSE j \in 1..Len(pose) : config.arms[i].indices[j] = a]
                ELSE ctrl[a]]
  /\ UNCHANGED <<scenario, ikEnabled, keys, armStates, baseState, headState,
                 steps, snap, wasActive, calls, written, blurred, kin>>

\* Another writer assigns one actuator command
ExternalWrite(a, v) ==
  /\ externals < MaxExternals
  /\ externals' = externals + 1
  /\ extStep' = steps
  /\ ctrl[a] # v
  /\ ctrl' = [ctrl EXCEPT ![a] = v]
  /\ UNCHANGED <<scenario, ikEnabled, keys, armStates, baseState, headState,
                 steps, snap, wasActive, calls, written, blurred, kin>>

Next ==
  \/ \E code \in pressable : KeyDown(code)
  \/ \E code \in pressable : KeyUp(code)
  \/ Blur
  \/ Step
  \/ \E pose \in Scenarios[scenario].poses :
       ExternalPose(Scenarios[scenario].arm, pose)
  \/ \E a \in Scenarios[scenario].targets : \E v \in ExternalValues :
       ExternalWrite(a, v)

Spec == Init /\ [][Next]_vars

SpecMismatched == InitMismatched /\ [][Next]_vars

-----------------------------------------------------------------------------
(***************************************************************************)
(* The kinematics functions exercised on their own: a target is drawn, the *)
(* inverse kinematics solves it, the forward kinematics maps the solution  *)
(* back.                                                                   *)
(***************************************************************************)

\* targets lie on a grid of GridMax steps of 0.03 m each side of the origin
GridMax == 9

\* ... and on a few coordinates inside the inner radius and on the rims
TargetCoords ==
  {g * 300 : g \in -GridMax..GridMax} \cup {-100, -1, 1, 70, 191, 2509}

LinkageNamed(name) == IF name = "wide" THEN WIDE_LINKAGE ELSE SO101_LINKAGE

InitKin ==
  /\ InitCtl(1)
  /\ \E x \in TargetCoords, y \in TargetCoords, name \in {"so101", "wide"} :
       kin = [phase |-> "target", x |-> x, y |-> y, linkage |-> name]

ctlVars == <<scenario, ikEnabled, keys, ctrl, armStates, baseState, headState,
             steps, snap, wasActive, calls, written, externals, extStep,
             blurred>>

\* inverseKinematics2Link(x, y, p)
KinSolve ==
  /\ kin.phase = "target"
  /\ kin' = [phase |-> "solved", x |-> kin.x, y |-> kin.y,
             linkage |-> kin.linkage,
             ik |-> IKTrace(kin.x, kin.y, LinkageNamed(kin.linkage))]
  /\ UNCHANGED ctlVars

\* forwardKinematics2Link(joint2, joint3, p) of the solution
KinForward ==
  /\ kin.phase = "solved"
  /\ kin' = [phase |-> "returned", x |-> kin.x, y |-> kin.y,
             linkage |-> kin.linkage, ik |-> kin.ik,
             pos |-> forwardKinematics2Link(kin.ik.joint2, kin.ik.joint3,
                                            LinkageNamed(kin.linkage))]
  /\ UNCHANGED ctlVars

NextKin == KinSolve \/ KinForward

SpecKin == InitKin /\ [][NextKin]_vars

-----------------------------------------------------------------------------
(***************************************************************************)
(* Properties of the kinematics functions (under SpecKin)                  *)
(***************************************************************************)

\* lengths agree when they differ by at most PosTol units of 1e-4 m
PosTol == 2

Near(a, b, tol) == Abs(a - b) <= tol

KinLinkage == LinkageNamed(kin.linkage)

KinRMax == KinLinkage.l1 + KinLinkage.l2

KinRMin == Abs(KinLinkage.l1 - KinLinkage.l2)

KinRSq == kin.x * kin.x + kin.y * kin.y

KinInReach == KinRMin * KinRMin <= KinRSq /\ KinRSq <= KinRMax * KinRMax

\* neither joint of the solution was altered by its range clamp
KinUnclamped ==
  /\ kin.ik.joint2 = kin.ik.theta1 + KinLinkage.theta1Offset
  /\ kin.ik.joint3 = kin.ik.theta2 + KinLinkage.theta2Offset

\* C8: for every target whose distance from the origin lies in
\* [|l1 - l2|, l1 + l2] and whose joints the range clamps do not alter,
\* forwardKinematics2Link(inverseKinematics2Link(x, y)) is (x, y).
C8_RoundTripWithinReach ==
  (kin.phase = "returned" /\ KinInReach /\ KinUnclamped)
    => /\ Near(kin.pos[1], kin.x, PosTol)
       /\ Near(kin.pos[2], kin.y, PosTol)

\* an in-reach, unclamped target off both axes has made the round trip
C8_Witness ==
  /\ kin.phase = "returned" /\ KinInReach /\ KinUnclamped
  /\ kin.linkage = "so101" /\ kin.x < 0 /\ kin.y > 0
  /\ kin.ik.theta2 > 0 /\ kin.ik.theta2 < Pi
  /\ Near(kin.pos[1], kin.x, PosTol) /\ Near(kin.pos[2], kin.y, PosTol)

\* the solved point (x, y) lies at distance rLimit in the direction of the target
KinSolvedAt(rLimit) ==
  /\ kin.ik.r = rLimit
  /\ Near(Sqrt(kin.ik.x * kin.ik.x + kin.ik.y * kin.ik.y), rLimit, PosTol)
  /\ Abs(kin.ik.x * kin.y - kin.ik.y * kin.x) <= PosTol * (Abs(kin.x) + Abs(kin.y))
  /\ kin.ik.x * kin.x + kin.ik.y * kin.y > 0

\* C9: a target with r > l1 + l2 is solved as the point at distance l1 + l2
\* in the same direction (the arm fully extended), a target with
\* 0 < r < |l1 - l2| as the point at distance |l1 - l2| in the same direction
\* (fully folded), and a target inside the annulus is solved unscaled.
C9_ReachClamp ==
  kin.phase = "solved" =>
    /\ KinRSq > KinRMax * KinRMax
         => KinSolvedAt(KinRMax) /\ kin.ik.theta2 = 0
    /\ (0 < KinRSq /\ KinRSq < KinRMin * KinRMin)
         => KinSolvedAt(KinRMin) /\ kin.ik.theta2 = Pi
    /\ KinInReach
         => kin.ik.x = kin.x /\ kin.ik.y = kin.y /\ kin.ik.r = Sqrt(KinRSq)

\* a target beyond reach, off both axes, has been solved
C9_Witness ==
  /\ kin.phase = "solved" /\ KinRSq > KinRMax * KinRMax
  /\ kin.x # 0 /\ kin.y # 0 /\ kin.ik.x # kin.x /\ kin.ik.y # kin.y
  /\ kin.ik.r = KinRMax

\* a target a tenth of a millimetre from the origin, off both axes, has been
\* pushed out to the inner radius
C9_WitnessTiny ==
  /\ kin.phase = "solved" /\ kin.x = -1 /\ kin.y = 1
  /\ kin.ik.r = KinRMin /\ KinSolvedAt(KinRMin)

\* a target inside the inner radius has been solved
C9_WitnessInner ==
  /\ kin.phase = "solved" /\ 0 < KinRSq /\ KinRSq < KinRMin * KinRMin
  /\ kin.ik.x # kin.x /\ kin.ik.r = KinRMin

\* C10: inverseKinematics2Link(0, 0) returns a joint pair without dividing
\* by zero (the retraction scaling is skipped when r = 0), and for every
\* input the value passed to acos lies in [-1, 1].
C10_OriginAndAcosGuard ==
  kin.phase = "solved" =>
    /\ ~kin.ik.nan
    /\ -TrigScale <= kin.ik.acosArg /\ kin.ik.acosArg <= TrigScale
    /\ (kin.x = 0 /\ kin.y = 0) =>
         /\ kin.ik.r = 0
         /\ kin.ik.x = 0 /\ kin.ik.y = 0
         /\ kin.ik.joint2 \in KinLinkage.joint2Range[1]..KinLinkage.joint2Range[2]
         /\ kin.ik.joint3 \in KinLinkage.joint3Range[1]..KinLinkage.joint3Range[2]

\* the origin has been solved, with a raw cosine above 1 that the guard cut
C10_Witness ==
  /\ kin.phase = "solved" /\ kin.x = 0 /\ kin.y = 0
  /\ kin.ik.cosTheta2 > TrigScale /\ kin.ik.acosArg = TrigScale

-----------------------------------------------------------------------------
(***************************************************************************)
(* Properties of the controller (under Spec)                               *)
(***************************************************************************)

\* joint commands agree when they differ by at most JointTol angle units
JointTol == 5

\* the step from this state to the next is a run of the callback
StepTaken == steps' = steps + 1

Arms == DOMAIN armStates

\* actuator index of slot j (from 0) of arm i
Idx(i, j) == At(config.arms[i].indices, j)

LastSlot(i) == Len(config.arms[i].indices) - 1

\* the 10 movement keys of arm i, and its gripper key
MoveKeys(i) == {At(config.arms[i].keys, j) : j \in 0..9}

GripKey(i) == At(config.arms[i].keys, 10)

\* the shoulder-rotate and wrist-roll keys of arm i
RotRollKeys(i) == {At(config.arms[i].keys, j) : j \in {0, 1, 8, 9}}

\* the names of the ikCtx calls in cs made by arm i, in order
CallNames(cs, i) ==
  LET mine == SelectSeq(cs, LAMBDA c : c[1] = i)
  IN  [n \in 1..Len(mine) |-> mine[n][2]]

RestoreCalls == <<"syncTargetToSite", "setIkEnabled(true)">>

\* the pose in arm i's actuators has both IK joints inside their ranges
PoseInRange(i) ==
  LET p == LinkageOf(config.arms[i])
  IN  /\ ctrl[Idx(i, 1)] \in p.joint2Range[1]..p.joint2Range[2]
      /\ ctrl[Idx(i, 2)] \in p.joint3Range[1]..p.joint3Range[2]

\* the wrist pitch relative to the forearm of the pose in arm i's actuators
PosePitch(i) == ctrl[Idx(i, 3)] - ctrl[Idx(i, 1)] + ctrl[Idx(i, 2)]

\* this step takes arm i from IDLE to KEYBOARD_ACTIVE with no movement key
\* held except shoulder-rotate and wrist-roll keys
SeizedByRotOrRoll(i) ==
  /\ StepTaken
  /\ ~armStates[i].controlActive /\ armStates'[i].controlActive
  /\ (keys \cap MoveKeys(i)) \subseteq RotRollKeys(i)
  /\ PoseInRange(i)

\* the step leaves the shoulder, elbow and wrist-pitch commands of arm i as
\* they were
PoseKept(i) == \A j \in 1..3 : Near(ctrl'[Idx(i, j)], ctrl[Idx(i, j)], JointTol)

\* C1: on the step where an arm goes IDLE -> KEYBOARD_ACTIVE with only
\* shoulder-rotate or wrist-roll keys held, for every in-range pose its
\* actuators held before the step, the commands written to the shoulder,
\* elbow and wrist-pitch actuators equal the pre-step values, including when
\* the resynced pitch is non-zero.
C1_NoJumpOnHandoff ==
  [][\A i \in Arms : SeizedByRotOrRoll(i) => PoseKept(i)]_vars

\* The same with the pre-step pose restricted to a level wrist (resynced
\* pitch zero) and an elbow angle the IK can return (theta2 in 0..Pi).
C1_NoJumpWhenLevel ==
  [][\A i \in Arms :
       (/\ SeizedByRotOrRoll(i)
        /\ PosePitch(i) = 0
        /\ ctrl[Idx(i, 2)] >= LinkageOf(config.arms[i]).theta2Offset)
         => PoseKept(i)]_vars

\* C2: at the end of every step, if any arm is KEYBOARD_ACTIVE then the
\* external IK is disabled, for any number of arms sharing the one handle.
C2_KeyboardExcludesIK ==
  (\E i \in Arms : armStates[i].controlActive) => ~ikEnabled

\* C3: when an arm that seized control while external IK was enabled has all
\* its 10 movement keys released, the step that observes the release calls
\* syncTargetToSite and then setIkEnabled(true), each exactly once and in
\* that order, and no later idle step of that arm calls either again until
\* the arm is seized again.
C3_ReleaseRestore ==
  [][StepTaken =>
       \A i \in Arms :
         LET noKey == keys \cap MoveKeys(i) = {}
         IN  /\ (armStates[i].controlActive /\ armStates[i].ikWasEnabled /\ noKey)
                  => CallNames(calls', i) = RestoreCalls
             /\ (~armStates[i].controlActive /\ noKey)
                  => CallNames(calls', i) = << >>]_vars

\* the last step released an arm that had seized control from an enabled IK
C3_Witness ==
  \E i \in Arms :
    /\ wasActive[i] /\ ~armStates[i].controlActive /\ armStates[i].ikWasEnabled
    /\ CallNames(calls, i) = RestoreCalls
    /\ ikEnabled

\* C4: the gripper latch flips exactly on the steps where the gripper key is
\* held and was not held on the previous step, in both IDLE and
\* KEYBOARD_ACTIVE.
C4_EdgeTriggeredGripper ==
  [][StepTaken =>
       \A i \in Arms :
         (armStates'[i].gripperOpen # armStates[i].gripperOpen)
           <=> (GripKey(i) \in keys /\ GripKey(i) \notin snap)]_vars

\* after four steps the key is held again and the latch has flipped twice:
\* once on an earlier hold and once on the re-hold, the arm KEYBOARD_ACTIVE
C4_Witness ==
  \E i \in Arms :
    /\ steps = 4 /\ GripKey(i) \in snap
    /\ ~armStates[i].gripperOpen
    /\ At(armStates[i].targetJoints, LastSlot(i)) = DEFAULT_GRIPPER_CLOSED
    /\ armStates[i].controlActive

\* C5: in every step that ends with controlActive false for an arm, the
\* controller leaves that arm's non-gripper actuator commands unchanged and
\* unwritten, and still writes the arm's gripper actuator (last index).
C5_GripperIndependence ==
  [][StepTaken =>
       \A i \in Arms :
         ~armStates'[i].controlActive =>
           /\ \A j \in 0..(LastSlot(i) - 1) :
                /\ Idx(i, j) \notin written'
                /\ ctrl'[Idx(i, j)] = ctrl[Idx(i, j)]
           /\ Idx(i, LastSlot(i)) \in written'
           /\ ctrl'[Idx(i, LastSlot(i))]
                = At(armStates'[i].targetJoints, LastSlot(i))]_vars

\* an idle step ran after an external write to the elbow actuator of an idle
\* arm, the written value is still there and the gripper was written
C5_Witness ==
  \E i \in Arms :
    /\ extStep >= 0 /\ extStep < steps
    /\ ~wasActive[i] /\ ~armStates[i].controlActive
    /\ ctrl[Idx(i, 2)] \in ExternalValues
    /\ Idx(i, 2) \notin written
    /\ Idx(i, LastSlot(i)) \in written

\* the actuator and the two keys of base axis ax (1: drive, 2: turn)
BaseActuator(ax) == At(config.base[1].indices, ax - 1)

BaseKeys(ax) ==
  {At(config.base[1].keys, 2 * (ax - 1)), At(config.base[1].keys, 2 * (ax - 1) + 1)}

\* C6: for each base drive axis, the first step after both of its keys are
\* released writes 0 to that axis's actuator; every later step with neither
\* key held does not write that actuator at all, so an external write to it
\* made while idle is preserved.
C6_BaseEdgeZero ==
  [][(StepTaken /\ Given(config.base)) =>
       \A ax \in 1..2 :
         (keys \cap BaseKeys(ax) = {}) =>
           IF snap \cap BaseKeys(ax) # {}
           THEN ctrl'[BaseActuator(ax)] = 0 /\ BaseActuator(ax) \in written'
           ELSE /\ BaseActuator(ax) \notin written'
                /\ ctrl'[BaseActuator(ax)] = ctrl[BaseActuator(ax)]]_vars

\* the drive axis was driven and released, then written externally, and an
\* idle step after that left the external value in place
C6_Witness ==
  /\ Given(config.base)
  /\ extStep >= 2 /\ extStep < steps
  /\ ctrl[BaseActuator(1)] \in ExternalValues
  /\ BaseActuator(1) \notin written
  /\ baseState = <<FALSE, FALSE>>

\* C7: after a blur event with no key-down event before the next step, that
\* step treats every key as not held: every arm ends it IDLE (the external
\* IK restored if it was enabled at seizure), every base axis that was
\* active is zeroed and the head angles do not change; the blur leaves no
\* key held.
C7_FocusLossReleasesAll ==
  [][/\ (blurred # "pending" /\ blurred' = "pending") => keys' = {}
     /\ (StepTaken /\ blurred = "pending") =>
          /\ \A i \in Arms :
               /\ ~armStates'[i].controlActive
               /\ (armStates[i].controlActive /\ armStates[i].ikWasEnabled)
                    => CallNames(calls', i) = RestoreCalls /\ ikEnabled'
          /\ Given(config.base) =>
               \A ax \in 1..2 :
                 snap \cap BaseKeys(ax) # {} => ctrl'[BaseActuator(ax)] = 0
          /\ headState' = headState]_vars

\* the last step ran right after a blur that found an arm KEYBOARD_ACTIVE
\* and the base driving: the arm is IDLE, the IK restored, the axis zeroed
C7_Witness ==
  /\ blurred = "applied" /\ Given(config.base)
  /\ \E i \in Arms :
       /\ wasActive[i] /\ ~armStates[i].controlActive
       /\ CallNames(calls, i) = RestoreCalls
  /\ ikEnabled
  /\ BaseActuator(1) \in written /\ ctrl[BaseActuator(1)] = 0

-----------------------------------------------------------------------------
(***************************************************************************)
(* Further properties of the controller (under Spec)                       *)
(***************************************************************************)

ArmLinkage(i) == LinkageOf(config.arms[i])

InRange(range, v) == range[1] <= v /\ v <= range[2]

\* the IK solution, with its intermediate values, for the cursor arm i holds
ArmTrace(i) ==
  IKTrace(armStates[i].eePos[1],
          armStates[i].eePos[2]
            + MulDiv(OrElse(config.arms[i].tipLength, DEFAULT_TIP_LENGTH),
                     Sin(armStates[i].pitch), TrigScale),
          ArmLinkage(i))

\* C11: inverseKinematics2Link returns joint2 inside joint2Range and joint3
\* inside joint3Range, so after every controller step, in both states and
\* however far eePos has been driven, targetJoints[1] and targetJoints[2]
\* lie inside those ranges.
C11_JointLimits ==
  steps >= 1 =>
    \A i \in Arms :
      /\ InRange(ArmLinkage(i).joint2Range, At(armStates[i].targetJoints, 1))
      /\ InRange(ArmLinkage(i).joint3Range, At(armStates[i].targetJoints, 2))

\* a KEYBOARD_ACTIVE arm has been driven for two steps to a cursor beyond
\* reach whose shoulder solution lies below joint2Range; the stored joint is
\* the range's lower end
C11_Witness ==
  \E i \in Arms :
    /\ steps >= 2 /\ wasActive[i] /\ armStates[i].controlActive
    /\ ArmTrace(i).r = ArmLinkage(i).l1 + ArmLinkage(i).l2
    /\ ArmTrace(i).x # armStates[i].eePos[1]
    /\ ArmTrace(i).theta1 + ArmLinkage(i).theta1Offset < ArmLinkage(i).joint2Range[1]
    /\ At(armStates[i].targetJoints, 1) = ArmLinkage(i).joint2Range[1]

\* all 11 keys of arm i
ArmKeys(i) == {At(config.arms[i].keys, j) : j \in 0..10}

\* the record the callback starts from in the current state
Before ==
  [ctrl |-> ctrl, arms |-> armStates, prevActive |-> baseState,
   head |-> headState, ikEnabled |-> ikEnabled, calls |-> << >>,
   written |-> {}]

\* arm i's targetJoints, eePos, pitch, gripper latch and controlActive, and
\* the commands of its actuators, in the callback record w
ArmView(w, i) ==
  [targetJoints |-> w.arms[i].targetJoints, eePos |-> w.arms[i].eePos,
   pitch |-> w.arms[i].pitch, gripperOpen |-> w.arms[i].gripperOpen,
   gripperKeyWasDown |-> w.arms[i].gripperKeyWasDown,
   controlActive |-> w.arms[i].controlActive,
   ctrl |-> [j \in 0..LastSlot(i) |-> w.ctrl[Idx(i, j)]]]

\* C12: a step changes arm b's state and actuator commands exactly as it
\* would if the keys of another arm a were not held; pressing or releasing
\* keys changes no arm's state or commands.
C12_PerArmIndependence ==
  [][/\ StepTaken =>
          \A a \in Arms : \A b \in Arms \ {a} :
            ArmView([ctrl |-> ctrl', arms |-> armStates'], b)
              = ArmView(StepResult(Before, keys \ ArmKeys(a), config, ikPresent), b)
     /\ keys' # keys => armStates' = armStates /\ ctrl' = ctrl]_vars

\* the last step ran with keys of both arms held and seized both arms from
\* an enabled IK, the first arm disabling it
C12_Witness ==
  /\ Len(config.arms) = 2 /\ steps >= 1
  /\ snap \cap ArmKeys(1) # {} /\ snap \cap ArmKeys(2) # {}
  /\ armStates[1].controlActive /\ armStates[2].controlActive
  /\ ~wasActive[1] /\ ~wasActive[2]
  /\ armStates[1].ikWasEnabled

\* arm i's state with every targetJoints slot read from its actuators, eePos
\* the forward kinematics of slots 1-2 and pitch from slots 1-3
Resynced(i) ==
  [armStates[i] EXCEPT
     !.targetJoints = [j \in 1..(LastSlot(i) + 1) |-> ctrl[Idx(i, j - 1)]],
     !.eePos = forwardKinematics2Link(ctrl[Idx(i, 1)], ctrl[Idx(i, 2)],
                                      ArmLinkage(i)),
     !.pitch = ctrl[Idx(i, 3)] - ctrl[Idx(i, 1)] + ctrl[Idx(i, 2)],
     !.controlActive = TRUE]

\* the state s after the held keys k are integrated, the gripper toggled and
\* the IK solved for arm i
AfterKeys(s, k, i) ==
  SolveIK(GripperToggle(Integrate(s, k, config.arms[i].keys), k,
                        config.arms[i]),
          config.arms[i])

\* the IK enable flag when the loop of a step reaches arm i, cs the calls
\* that step made: the flag before the step unless an earlier arm set it
FlagAtTurn(cs, i) ==
  IF SelectSeq(cs, LAMBDA c : c[1] < i) = << >>
  THEN ikEnabled
  ELSE cs[Len(SelectSeq(cs, LAMBDA c : c[1] < i))][2] = "setIkEnabled(true)"

\* C13: on the IDLE -> KEYBOARD_ACTIVE step, before any key is integrated,
\* every slot of targetJoints is loaded from the arm's current actuator
\* command, eePos is the forward kinematics of slots 1-2, pitch is
\* targetJoints[3] - targetJoints[1] + targetJoints[2], and if the external
\* IK is enabled at that instant it is disabled in that same step.
C13_ResyncOnSeizure ==
  [][StepTaken =>
       \A i \in Arms :
         (~armStates[i].controlActive /\ armStates'[i].controlActive) =>
           /\ [armStates'[i] EXCEPT !.ikWasEnabled = FALSE]
                = [AfterKeys(Resynced(i), keys, i) EXCEPT !.ikWasEnabled = FALSE]
           /\ armStates'[i].ikWasEnabled = (ikPresent /\ FlagAtTurn(calls', i))
           /\ CallNames(calls', i)
                = IF ikPresent /\ FlagAtTurn(calls', i)
                  THEN <<"setIkEnabled(false)">> ELSE << >>]_vars

\* the last step seized an arm from an enabled IK right after an external
\* party left a pose in its actuators: the wrist roll is the pose's, not the
\* stored one, and the IK was disabled
C13_Witness ==
  \E i \in Arms :
    /\ ~wasActive[i] /\ armStates[i].controlActive
    /\ externals = 1 /\ extStep = steps - 1
    /\ At(armStates[i].targetJoints, 4) # At(config.homeJoints, Idx(i, 4))
    /\ snap \cap RotRollKeys(i) = {}
    /\ armStates[i].ikWasEnabled /\ ~ikEnabled
    /\ CallNames(calls, i) = <<"setIkEnabled(false)">>

\* the quantities of arm state s that only keys and a resync change
Driven(s) ==
  <<At(s.targetJoints, 0), s.eePos, s.pitch, At(s.targetJoints, 4)>>

\* C14: at the end of every step an arm's controlActive is true if and only
\* if at least one of its 10 non-gripper keys was held in that step's key
\* snapshot; with none of them held (the gripper key held or not) an IDLE arm
\* is not resynced from the actuators and makes no call on the external IK.
C14_StateFollowsKeys ==
  [][StepTaken =>
       \A i \in Arms :
         /\ armStates'[i].controlActive <=> (keys \cap MoveKeys(i) # {})
         /\ (keys \cap MoveKeys(i) = {} /\ ~armStates[i].controlActive) =>
              /\ Driven(armStates'[i]) = Driven(armStates[i])
              /\ CallNames(calls', i) = << >>
              /\ armStates'[i].ikWasEnabled = armStates[i].ikWasEnabled]_vars

\* the last step ran with only the gripper key held, after an external write
\* to the elbow actuator and with the IK enabled: the latch flipped, the arm
\* is IDLE, the written value is still in place and the IK still enabled
C14_Witness ==
  \E i \in Arms :
    /\ steps >= 1 /\ snap \cap ArmKeys(i) = {GripKey(i)}
    /\ ~wasActive[i] /\ ~armStates[i].controlActive
    /\ armStates[i].gripperOpen
    /\ extStep >= 0 /\ extStep < steps /\ ctrl[Idx(i, 2)] \in ExternalValues
    /\ ikEnabled /\ calls = << >>

\* the actuator indices of arm i
ArmIndices(i) == {Idx(i, j) : j \in 0..LastSlot(i)}

\* C15: at the end of every step in which an arm is KEYBOARD_ACTIVE, each of
\* its actuator commands equals the corresponding targetJoints slot; an arm
\* that was already KEYBOARD_ACTIVE computes its new state from its stored
\* state and the keys alone, so an external write made between two active
\* steps is overwritten and not read back.
C15_KeyboardAuthoritative ==
  [][StepTaken =>
       \A i \in Arms :
         armStates'[i].controlActive =>
           /\ \A j \in 0..LastSlot(i) :
                ctrl'[Idx(i, j)] = At(armStates'[i].targetJoints, j)
           /\ armStates[i].controlActive =>
                armStates'[i] = AfterKeys(armStates[i], keys, i)]_vars

\* an external party wrote one of the arm's actuators between two steps that
\* both ended KEYBOARD_ACTIVE; the written value is gone
C15_Witness ==
  \E i \in Arms :
    /\ wasActive[i] /\ armStates[i].controlActive
    /\ externals = 1 /\ extStep >= 1 /\ extStep = steps - 1
    /\ Scenarios[scenario].poses = {}
    /\ Scenarios[scenario].targets # {}
    /\ Scenarios[scenario].targets \subseteq ArmIndices(i)
    /\ \A a \in Scenarios[scenario].targets : ctrl[a] \notin ExternalValues

-----------------------------------------------------------------------------
(***************************************************************************)
(* The kinematics functions in the order the handoff uses them: a joint    *)
(* pair is drawn, the forward kinematics places the end effector, the      *)
(* inverse kinematics solves for the joints again.                         *)
(***************************************************************************)

\* joint pairs lie on a grid of JointGrid steps across each joint range
JointGrid == 14

\* the g-th of JointGrid + 1 evenly spaced values across range
GridValue(range, g) == range[1] + (g * (range[2] - range[1])) \div JointGrid

InitRev ==
  /\ InitCtl(1)
  /\ \E g2 \in 0..JointGrid, g3 \in 0..JointGrid :
       kin = [phase |-> "joints",
              joint2 |-> GridValue(SO101_LINKAGE.joint2Range, g2),
              joint3 |-> GridValue(SO101_LINKAGE.joint3Range, g3)]

\* forwardKinematics2Link(joint2, joint3)
RevForward ==
  /\ kin.phase = "joints"
  /\ kin' = [phase |-> "placed", joint2 |-> kin.joint2, joint3 |-> kin.joint3,
             pos |-> forwardKinematics2Link(kin.joint2, kin.joint3, SO101_LINKAGE)]
  /\ UNCHANGED ctlVars

\* inverseKinematics2Link(x, y) of the placed point
RevSolve ==
  /\ kin.phase = "placed"
  /\ kin' = [phase |-> "resolved", joint2 |-> kin.joint2, joint3 |-> kin.joint3,
             pos |-> kin.pos,
             ik |-> IKTrace(kin.pos[1], kin.pos[2], SO101_LINKAGE)]
  /\ UNCHANGED ctlVars

NextRev == RevForward \/ RevSolve

SpecRev == InitRev /\ [][NextRev]_vars

\* joint angles agree when they differ by at most RevTol angle units (the
\* fixed-point solution loses precision next to full extension)
RevTol == 50

\* C16: for every joint pair (joint2, joint3) inside joint2Range x
\* joint3Range, inverseKinematics2Link(forwardKinematics2Link(joint2,
\* joint3)) returns that same pair, including pairs whose elbow angle
\* joint3 - theta2Offset is negative.
C16_ReverseRoundTrip ==
  kin.phase = "resolved" =>
    /\ Near(kin.ik.joint2, kin.joint2, RevTol)
    /\ Near(kin.ik.joint3, kin.joint3, RevTol)

\* the elbow angle of the drawn pair
RevTheta2 == kin.joint3 - SO101_LINKAGE.theta2Offset

\* the direction of the placed point as the forward kinematics computed it
RevBeta ==
  kin.joint2 - SO101_LINKAGE.theta1Offset - Gamma(RevTheta2, SO101_LINKAGE)

\* The same for pairs whose elbow angle is not negative and whose end
\* effector direction beta lies within (-Pi, Pi].
C16_ReverseRoundTripElbowUp ==
  (kin.phase = "resolved" /\ RevTheta2 >= 0 /\ RevBeta > -Pi /\ RevBeta <= Pi) =>
    /\ Near(kin.ik.joint2, kin.joint2, RevTol)
    /\ Near(kin.ik.joint3, kin.joint3, RevTol)

-----------------------------------------------------------------------------
(***************************************************************************)
(* Further properties of the controller (under Spec), continued            *)
(***************************************************************************)

\* ikEnabledRef.current when the controller was mounted; only the controller
\* changes the flag afterwards
InitialFlag == Scenarios[scenario].ik = "enabled"

\* C17: for any number of arms and any sequence of seizures and releases,
\* once every arm is IDLE again the external IK enable flag equals its value
\* before the first seizure; an arm that seized control while the IK was
\* disabled calls neither syncTargetToSite nor setIkEnabled on release.
C17_FlagRestored ==
  [][/\ StepTaken =>
          \A i \in Arms :
            (/\ armStates[i].controlActive /\ ~armStates[i].ikWasEnabled
             /\ keys \cap MoveKeys(i) = {})
              => CallNames(calls', i) = << >>
     /\ (\A i \in Arms : ~armStates'[i].controlActive)
          => ikEnabled' = InitialFlag]_vars

\* two arms seized under an enabled IK, the first released while the second
\* stayed active, and the last step released the second, which had seized
\* from a disabled IK: no call was made and the flag is enabled as at first
C17_Witness ==
  /\ Len(config.arms) = 2 /\ InitialFlag /\ steps >= 3
  /\ \A i \in Arms : ~armStates[i].controlActive
  /\ ~wasActive[1] /\ wasActive[2]
  /\ armStates[1].ikWasEnabled /\ ~armStates[2].ikWasEnabled
  /\ calls = << >> /\ ikEnabled

\* 1 if key slot j of arm i is held in the current key table, else 0
Down(i, j) == IF At(config.arms[i].keys, j) \in keys THEN 1 ELSE 0

\* the quantities Driven of state s after one step of the held keys of arm i
Moved(s, i) ==
  <<At(s.targetJoints, 0) + (Down(i, 0) - Down(i, 1)) * JOINT_STEP,
    <<s.eePos[1] + (Down(i, 2) - Down(i, 3)) * EE_STEP,
      s.eePos[2] + (Down(i, 4) - Down(i, 5)) * EE_STEP>>,
    s.pitch + (Down(i, 6) - Down(i, 7)) * PITCH_STEP,
    At(s.targetJoints, 4) + (Down(i, 8) - Down(i, 9)) * 3 * JOINT_STEP>>

\* C18: in each step each held movement key changes its quantity by one
\* fixed increment (eePos x and y by EE_STEP, pitch by PITCH_STEP, shoulder
\* rotation by JOINT_STEP, wrist roll by 3 * JOINT_STEP), from the stored
\* value while the arm stays KEYBOARD_ACTIVE and from the resynced value on
\* the seizure step; both keys of a pair cancel; nothing clamps eePos,
\* pitch, rotation or roll.
C18_FixedIncrements ==
  [][StepTaken =>
       \A i \in Arms :
         armStates'[i].controlActive =>
           Driven(armStates'[i])
             = IF armStates[i].controlActive
               THEN Moved(armStates[i], i)
               ELSE Moved(Resynced(i), i)]_vars

\* an arm seized at its home pose has held the forward key on every step and
\* both keys of that pair on the last one: eePos x has moved by one
\* increment per step but the last
C18_Witness ==
  \E i \in Arms :
    /\ steps >= 3 /\ externals = 0
    /\ wasActive[i] /\ armStates[i].controlActive
    /\ snap = {At(config.arms[i].keys, 2), At(config.arms[i].keys, 3)}
    /\ armStates[i].eePos[1]
         = forwardKinematics2Link(At(config.homeJoints, Idx(i, 1)),
                                  At(config.homeJoints, Idx(i, 2)),
                                  ArmLinkage(i))[1]
           + (steps - 1) * EE_STEP

\* targetJoints[3] = targetJoints[1] - targetJoints[2] + pitch for arm i
PitchRelative(i) ==
  At(armStates[i].targetJoints, 3)
    = At(armStates[i].targetJoints, 1) - At(armStates[i].targetJoints, 2)
      + armStates[i].pitch

\* arm.initialJoints is absent or has at least four entries
InitialPitchGiven(i) ==
  \/ ~Given(config.arms[i].initialJoints)
  \/ Len(OrElse(config.arms[i].initialJoints, << >>)) >= 4

\* C19: wrist pitch is relative to the forearm: after every step, in both
\* IDLE and KEYBOARD_ACTIVE, targetJoints[3] = targetJoints[1] -
\* targetJoints[2] + pitch; the same holds in the initial state when
\* initialJoints is absent or has at least four entries.
C19_PitchRelative ==
  \A i \in Arms : (steps >= 1 \/ InitialPitchGiven(i)) => PitchRelative(i)

\* C19 as stated: the relation holds in the initial state and after every
\* step, whatever the initialJoints are
C19_PitchRelativeFromStart == \A i \in Arms : PitchRelative(i)

\* a KEYBOARD_ACTIVE arm with a nonzero pitch and a bent elbow
C19_Witness ==
  \E i \in Arms :
    /\ steps >= 2 /\ armStates[i].controlActive
    /\ armStates[i].pitch # 0
    /\ At(armStates[i].targetJoints, 1) # At(armStates[i].targetJoints, 2)
    /\ PitchRelative(i)

\* an arm started without initialJoints, IDLE after a step
C19_WitnessBare ==
  /\ ~Given(config.arms[1].initialJoints) /\ steps >= 1
  /\ ~armStates[1].controlActive /\ PitchRelative(1)

\* base.speed ?? 1
BaseSpeed == OrElse(config.base[1].speed, 1)

\* the first (forward, turn-left) and second (back, turn-right) key of an axis
FirstKey(ax) == At(config.base[1].keys, 2 * (ax - 1))
SecondKey(ax) == At(config.base[1].keys, 2 * (ax - 1) + 1)

\* what the first key of an axis commands: -speed forward, +speed turn-left
FirstLevel(ax) == IF ax = 1 THEN -BaseSpeed ELSE BaseSpeed

\* C20: in every step each base axis actuator is written a constant of
\* magnitude speed whose sign is fixed by the key held (forward -speed, back
\* +speed, turn-left +speed, turn-right -speed); the first key of an axis
\* wins when both are held; each axis is decided from its own two keys only.
C20_BaseLevelCheck ==
  [][(StepTaken /\ Given(config.base)) =>
       \A ax \in 1..2 :
         /\ FirstKey(ax) \in keys =>
              /\ ctrl'[BaseActuator(ax)] = FirstLevel(ax)
              /\ BaseActuator(ax) \in written'
         /\ (FirstKey(ax) \notin keys /\ SecondKey(ax) \in keys) =>
              /\ ctrl'[BaseActuator(ax)] = -FirstLevel(ax)
              /\ BaseActuator(ax) \in written']_vars

\* the last step ran with both turn keys held and turned left
C20_Witness ==
  /\ Given(config.base) /\ steps >= 1
  /\ snap = {FirstKey(2), SecondKey(2)}
  /\ ctrl[BaseActuator(2)] = BaseSpeed /\ BaseActuator(2) \in written
  /\ BaseSpeed > 0

\* the last step ran with the back key and the turn-left key held: both axes
\* are driven, each by its own key
C20_WitnessTwoAxes ==
  /\ Given(config.base) /\ steps >= 1
  /\ snap = {SecondKey(1), FirstKey(2)}
  /\ ctrl[BaseActuator(1)] = BaseSpeed /\ ctrl[BaseActuator(2)] = BaseSpeed

\* the last step ran with the forward key and an arm key held: the base is
\* driven forward while the arm is KEYBOARD_ACTIVE
C20_WitnessWithArm ==
  /\ Given(config.base) /\ steps >= 1
  /\ FirstKey(1) \in snap /\ \E i \in Arms : snap \cap MoveKeys(i) # {}
  /\ ctrl[BaseActuator(1)] = -BaseSpeed

\* the actuator of head axis ax (1 pan, 2 tilt)
HeadActuator(ax) == At(config.head[1].indices, ax - 1)

\* 1 if key slot j of the head bindings is held in the current key table
HeadDown(j) == IF At(config.head[1].keys, j) \in keys THEN 1 ELSE 0

\* C21: the pan and tilt accumulators start at 0; a step changes each by
\* +2*JOINT_STEP for its plus key and -2*JOINT_STEP for its minus key (so not
\* at all with neither or both held), with no clamp, and writes both to the
\* head actuators whether or not a head key is held, replacing whatever
\* another writer left there; nothing but a step changes the accumulators.
C21_HeadIntegrator ==
  [][/\ steps = 0 => headState = <<0, 0>>
     /\ (StepTaken /\ Given(config.head)) =>
          \A ax \in 1..2 :
            /\ headState'[ax]
                 = headState[ax]
                   + (HeadDown(2 * (ax - 1)) - HeadDown(2 * (ax - 1) + 1))
                     * 2 * JOINT_STEP
            /\ ctrl'[HeadActuator(ax)] = headState'[ax]
            /\ HeadActuator(ax) \in written'
     /\ ~StepTaken => headState' = headState]_vars

\* the pan accumulator was driven for two steps, the pan actuator was then
\* written by another party, and a step with no key held wrote the
\* accumulator back over it
C21_Witness ==
  /\ Given(config.head)
  /\ steps >= 3 /\ extStep = steps - 1 /\ snap = {}
  /\ headState[1] = 2 * (2 * JOINT_STEP)
  /\ ctrl[HeadActuator(1)] = headState[1]
  /\ ctrl[HeadActuator(1)] \notin ExternalValues
  /\ HeadActuator(1) \in written

\* both pan keys were held in the last step, after one step of the plus key
\* alone: the accumulator kept its value
C21_WitnessBothKeys ==
  /\ Given(config.head)
  /\ steps = 2
  /\ snap = {At(config.head[1].keys, 0), At(config.head[1].keys, 1)}
  /\ headState[1] = 2 * JOINT_STEP
  /\ ctrl[HeadActuator(1)] = headState[1]

\* the callback record the current step would leave if an IK handle were
\* present with its flag at f
WithHandle(f) == StepResult([Before EXCEPT !.ikEnabled = f], keys, config, TRUE)

\* C22: with no external IK handle, a step makes no call on the handle (a
\* call on the absent handle is the only way the step could fail), leaves
\* ikWasEnabled false on every arm, and changes each arm's controlActive,
\* targets and actuator commands exactly as a step with a handle present
\* would, whether that handle's flag is on or off.
C22_AbsentIkValid ==
  [][(StepTaken /\ ~ikPresent) =>
       /\ calls' = << >>
       /\ \A i \in Arms :
            /\ ~armStates'[i].ikWasEnabled
            /\ armStates'[i].controlActive <=> (keys \cap MoveKeys(i) # {})
            /\ \A f \in BOOLEAN :
                 ArmView([ctrl |-> ctrl', arms |-> armStates'], i)
                   = ArmView(WithHandle(f), i)]_vars

\* without a handle an arm was seized, moved for a step, and released
C22_Witness ==
  \E i \in Arms :
    /\ ~ikPresent /\ steps >= 3
    /\ wasActive[i] /\ ~armStates[i].controlActive
    /\ ~armStates[i].ikWasEnabled /\ calls = << >>
    /\ armStates[i].targetJoints
         # [j \in 1..Len(config.arms[i].indices) |-> At(config.homeJoints, Idx(i, j - 1))]

\* the configured gripper command for latch value open of arm i
GripperValue(i, open) ==
  IF open THEN OrElse(config.arms[i].gripperOpen, DEFAULT_GRIPPER_OPEN)
  ELSE OrElse(config.arms[i].gripperClosed, DEFAULT_GRIPPER_CLOSED)

\* the step wrote arm i's gripper actuator with the value of its latch
GripperAgrees(i) ==
  /\ Idx(i, LastSlot(i)) \in written'
  /\ ctrl'[Idx(i, LastSlot(i))] = GripperValue(i, armStates'[i].gripperOpen)

\* C23: once the latch has been toggled, every step writes the gripper
\* actuator (last index) with the configured open value when the latch is
\* open and the configured closed value when it is closed, under any key
\* events, seizures, releases and external actuator writes between steps.
\* The latch starts closed, so a step that starts or ends with the latch
\* open is a step at or after its first toggle.
C23_GripperAgreesWithLatch ==
  [][StepTaken =>
       \A i \in Arms :
         (armStates[i].gripperOpen \/ armStates'[i].gripperOpen)
           => GripperAgrees(i)]_vars

\* C23 without another writer: while no external write has been made, every
\* step that starts or ends with the latch open writes the gripper actuator
\* with the value of the latch, across seizures and releases.
C23_GripperAgreesWithoutExternalWrites ==
  [][(StepTaken /\ externals = 0) =>
       \A i \in Arms :
         (armStates[i].gripperOpen \/ armStates'[i].gripperOpen)
           => GripperAgrees(i)]_vars

\* the latch is open, the last step seized the arm, and the gripper actuator
\* holds what another writer put there instead of the open value
C23_Diverged ==
  \E i \in Arms :
    /\ armStates[i].gripperOpen /\ ~wasActive[i] /\ armStates[i].controlActive
    /\ Idx(i, LastSlot(i)) \in written
    /\ ctrl[Idx(i, LastSlot(i))] \in ExternalValues
    /\ ctrl[Idx(i, LastSlot(i))] # GripperValue(i, TRUE)

\* no external write so far: the latch was opened, then the arm was seized
\* and the gripper actuator still has the open value
C23_WitnessSeizedAgreeing ==
  \E i \in Arms :
    /\ externals = 0 /\ steps >= 2
    /\ armStates[i].gripperOpen /\ ~wasActive[i] /\ armStates[i].controlActive
    /\ GripKey(i) \notin snap
    /\ ctrl[Idx(i, LastSlot(i))] = GripperValue(i, TRUE)

\* eePos, pitch, the gripper latch and the rotation, roll and gripper slots
\* of targetJoints of arm state s
Cursor(s) ==
  <<s.eePos, s.pitch, s.gripperOpen,
    At(s.targetJoints, 0), At(s.targetJoints, 4), At(s.targetJoints, 5)>>

\* the record the callback starts from, with arm i's stored targets, cursor
\* and pitch wiped
Wiped(i) ==
  [Before EXCEPT !.arms[i].targetJoints = [j \in DOMAIN @ |-> 0],
                 !.arms[i].eePos = <<0, 0>>,
                 !.arms[i].pitch = 0]

\* C24: a step in which none of an arm's 11 keys is held leaves that arm's
\* eePos, pitch, gripper latch and the rotation, roll and gripper slots of
\* targetJoints unchanged; and a seizure step gives the arm the same state
\* and commands whatever its stored targets, cursor and pitch were before,
\* so nothing accumulated while idle reaches the seizure.
C24_IdleLeavesCursor ==
  [][StepTaken =>
       \A i \in Arms :
         /\ keys \cap ArmKeys(i) = {} =>
              Cursor(armStates'[i]) = Cursor(armStates[i])
         /\ (~armStates[i].controlActive /\ armStates'[i].controlActive) =>
              ArmView([ctrl |-> ctrl', arms |-> armStates'], i)
                = ArmView(StepResult(Wiped(i), keys, config, ikPresent), i)]_vars

\* the latch was opened, then the elbow actuator was written externally,
\* then a step ran with no key held: the arm is IDLE, the latch still open
\* and the stored elbow target is not the externally written one
C24_Witness ==
  \E i \in Arms :
    /\ steps >= 2 /\ snap = {}
    /\ ~wasActive[i] /\ ~armStates[i].controlActive
    /\ armStates[i].gripperOpen
    /\ extStep >= 1 /\ extStep < steps
    /\ ctrl[Idx(i, 2)] \in ExternalValues
    /\ At(armStates[i].targetJoints, 2) # ctrl[Idx(i, 2)]

\* after at least two steps an IDLE arm was posed externally and then seized
C24_WitnessSeizure ==
  \E i \in Arms :
    /\ steps >= 3 /\ extStep = steps - 1
    /\ ~wasActive[i] /\ armStates[i].controlActive
    /\ ctrl[Idx(i, 1)] # At(config.homeJoints, Idx(i, 1))

\* C25: an arm configured with fewer than 11 key bindings, or with an
\* actuator-index list whose length is not 6, is rejected at construction:
\* no step ever runs for such an arm, so no step treats a missing binding as
\* a key that is never held, and a step that flips the gripper latch always
\* puts the latch's value in the slot written to the arm's last actuator.
C25_MismatchRejected ==
  [][StepTaken =>
       \A i \in Arms :
         /\ Len(config.arms[i].keys) >= 11
         /\ Len(config.arms[i].indices) = 6
         /\ (armStates'[i].gripperOpen # armStates[i].gripperOpen) =>
              /\ At(armStates'[i].targetJoints, LastSlot(i))
                   = GripperValue(i, armStates'[i].gripperOpen)
              /\ ctrl'[Idx(i, LastSlot(i))]
                   = GripperValue(i, armStates'[i].gripperOpen)]_vars

\* ten bindings: a step ran with the documented gripper key held; the
\* eleventh binding is missing and the latch never moves
C25_MissingBindingIgnored ==
  /\ Len(config.arms[1].keys) = 10 /\ steps >= 1
  /\ "KeyV" \in snap /\ ~armStates[1].gripperOpen

\* seven indices: the toggle put the open value in slot 5 while the step
\* wrote slot 6 to the last actuator; the IDLE arm's actuator 5 never got it
C25_ToggleMissesLastActuator ==
  /\ Len(config.arms[1].indices) = 7 /\ steps >= 1
  /\ armStates[1].gripperOpen /\ ~armStates[1].controlActive
  /\ At(armStates[1].targetJoints, 5) = GripperValue(1, TRUE)
  /\ ctrl[Idx(1, 6)] = At(armStates[1].targetJoints, 6)
  /\ ctrl[Idx(1, 6)] # GripperValue(1, TRUE)
  /\ ctrl[Idx(1, 5)] # GripperValue(1, TRUE)

\* four indices: the toggle's assignment to slot 5 falls outside the typed
\* array and is dropped; the last actuator is written the wrist-pitch target
C25_ToggleDropped ==
  /\ Len(config.arms[1].indices) = 4 /\ steps >= 1
  /\ armStates[1].gripperOpen
  /\ Len(armStates[1].targetJoints) = 4
  /\ ctrl[Idx(1, 3)] = At(armStates[1].targetJoints, 3)
  /\ ctrl[Idx(1, 3)] # GripperValue(1, TRUE)

=============================================================================
